---- MODULE Spec2Model ----
(***************************************************************************)
(* Model of the Yad2 real-estate tracker: the seen-state reconciliation    *)
(* loop and the repost matcher, in its two variants:                       *)
(*   "advanced" = src/scripts/scraper_with_alerts.py (location-only        *)
(*                matcher, phone cache, paginated feed, two searches);     *)
(*   "archive"  = src/archive/main.py (price-and-phone matcher).           *)
(*                                                                         *)
(* Encoding of Python values.  A JSON/Python value that may be an int or   *)
(* None is an integer, None being NoneInt; a raw key that is missing from  *)
(* the upstream record is AbsentInt / "ABSENT"; a text that is None is the *)
(* string "None"; the Hebrew sentinel for "unknown" is the string          *)
(* "unknown" for texts and UnknownFloor for the floor (an int upstream).   *)
(* A Python dict is a TLA+ record; dict.get(k, d) is Get(rec, k, d).       *)
(* The insertion-ordered dict `seen` is a sequence of [url, data] entries. *)
(***************************************************************************)
EXTENDS Integers, Sequences, FiniteSets, TLC

VARIABLES
    variant,      \* which program runs: "advanced" or "archive"
    pc,           \* position of the process in its main loop
    phase,        \* which call of the cycle function is running
    run_once,     \* main_loop(run_once=...)
    API_PARAMS,   \* the global current search filter (1 or 2)
    seen,         \* the global dict `seen`, in insertion order
    seen_file,    \* seen.json: [exists, content]
    phone_cache,  \* the global dict `phone_cache` (advanced)
    cache_file,   \* phone_cache.json: [exists, content]
    page,         \* check_yad2_listings: page
    total_pages,  \* check_yad2_listings: total_pages
    n_listings,   \* len(all_listings) / len(listings) of the running cycle
    index,        \* number of records of the cycle already taken from the list
    first_run,    \* TRUE while the initial population pass runs
    step          \* what the last step did (history, see NoStep)

vars == <<variant, pc, phase, run_once, API_PARAMS, seen, seen_file, phone_cache,
          cache_file, page, total_pages, n_listings, index, first_run, step>>

\* ------------------------------------------------------------------ values

NoneInt == -1
AbsentInt == -2
UnknownFloor == -3

MAX_RETRIES == 3
RETRY_DELAY == 5
retry_count == 3
SqmTolerance == 3

Abs(x) == IF x < 0 THEN -x ELSE x

Get(d, k, default) == IF k \in DOMAIN d THEN d[k] ELSE default

\* Python truthiness of a token / phone string
TruthyEmptyOk(s) == s \notin {"ABSENT", "None"}

Truthy(s) == s \notin {"ABSENT", "None", ""}

Url(token) == "https://www.yad2.co.il/item/" \o token

\* --------------------------------------------------------- the seen store

Keys(s) == {s[i].url : i \in 1..Len(s)}

IndexOf(s, url) == CHOOSE i \in 1..Len(s) : s[i].url = url

Lookup(s, url) == s[IndexOf(s, url)].data

\* seen[url] = data : an existing key keeps its position, a new key is appended
PutPriceOnly(s, url, data) ==
    IF url \in Keys(s)
    THEN [s EXCEPT ![IndexOf(s, url)].data.price = data.price]
    ELSE Append(s, [url |-> url, data |-> data])

PutEvicting(s, url, data) ==
    IF url \in Keys(s)
    THEN [s EXCEPT ![IndexOf(s, url)] = [url |-> url, data |-> data]]
    ELSE <<[url |-> url, data |-> data]>>

Put(s, url, data) ==
    IF url \in Keys(s)
    THEN [s EXCEPT ![IndexOf(s, url)] = [url |-> url, data |-> data]]
    ELSE Append(s, [url |-> url, data |-> data])

\* --- seen.json: the JSON document json.dump writes and json.load reads

\* the Python type of each attribute of a canonical record: int or None
\* (floor: int or the 'unknown' string), str or None, bool
IntFields == {"price", "rooms", "floor", "sqm"}
BoolFields == {"is_private"}

JsonNull == [t |-> "null", n |-> 0, s |-> ""]
JsonNumber(x) == [t |-> "number", n |-> x, s |-> ""]
JsonString(x) == [t |-> "string", n |-> 0, s |-> x]
JsonBool(b) == [t |-> IF b THEN "true" ELSE "false", n |-> 0, s |-> ""]

\* json.dump of one attribute value: None -> null, int -> number, str -> string
json_encode(f, x) ==
    IF f \in BoolFields THEN JsonBool(x)
    ELSE IF f \in IntFields
    THEN IF x = NoneInt THEN JsonNull
         ELSE IF x = UnknownFloor THEN JsonString("unknown")
         ELSE JsonNumber(x)
    ELSE IF x = "None" THEN JsonNull ELSE JsonString(x)

\* json.load of one attribute value
json_decode_null_empty(f, j) ==
    IF f \in BoolFields THEN j.t = "true"
    ELSE IF f \in IntFields
    THEN IF j.t = "null" THEN NoneInt
         ELSE IF j.t = "string" THEN UnknownFloor
         ELSE j.n
    ELSE IF j.t = "null" THEN "" ELSE j.s

json_decode(f, j) ==
    IF f \in BoolFields THEN j.t = "true"
    ELSE IF f \in IntFields
    THEN IF j.t = "null" THEN NoneInt
         ELSE IF j.t = "string" THEN UnknownFloor
         ELSE j.n
    ELSE IF j.t = "null" THEN "None" ELSE j.s

\* json.dump(seen, f): the members of the top-level object in dict order, each
\* value an object with one member per attribute
json_dump(s) ==
    [i \in 1..Len(s) |->
        [name |-> s[i].url,
         value |-> [f \in DOMAIN s[i].data |-> json_encode(f, s[i].data[f])]]]

\* json.load(f): dicts keep the order of the document
json_load(doc) ==
    [i \in 1..Len(doc) |->
        [url |-> doc[i].name,
         data |-> [f \in DOMAIN doc[i].value |-> json_decode(f, doc[i].value[f])]]]

\* A file is [exists, torn, content].  open(path, "w") truncates the file and
\* json.dump fills it afterwards: a process killed in between leaves a torn
\* file, one that exists and holds no complete JSON document (0 bytes).

\* save_seen(): json.dump of the whole dict, run to its end
save_seen(s) == [exists |-> TRUE, torn |-> FALSE, content |-> json_dump(s)]

\* seen.json after a kill inside save_seen()
TornFile == [exists |-> TRUE, torn |-> TRUE, content |-> <<>>]

\* json.load(f) of load_or_initialize_seen raises JSONDecodeError; nothing
\* catches it
LoadRaises(f) == f.exists /\ f.torn

\* load_or_initialize_seen() on a file json.load accepts: the file's content,
\* or the initial {} of the module
load_seen(f) == IF f.exists THEN json_load(f.content) ELSE <<>>

\* ------------------------------------------------------- listing normalizer

RawText(v, default) == IF v = "ABSENT" THEN default ELSE v
RawInt(v, default) == IF v = AbsentInt THEN default ELSE v

\* scraper_with_alerts.py extract_listing_data, phone filled in by the caller
extract_listing_data(item, phone) ==
    [price        |-> RawInt(item.price, 0),
     rooms        |-> RawInt(item.rooms, NoneInt),
     street       |-> RawText(item.street, "unknown"),
     neighborhood |-> RawText(item.neighborhood, "unknown"),
     city         |-> RawText(item.city, "unknown"),
     floor        |-> RawInt(item.floor, UnknownFloor),
     sqm          |-> RawInt(item.sqm, 0),
     phone        |-> phone,
     token        |-> item.token,
     is_private   |-> (item.adType = "private")]

\* archive/main.py extract_listing_data: five fields only
extract_listing_data_archive(item, phone) ==
    [price  |-> RawInt(item.price, 0),
     rooms  |-> RawInt(item.rooms, NoneInt),
     street |-> RawText(item.street, "unknown"),
     sqm    |-> RawInt(item.sqm, 0),
     phone  |-> phone]

\* ------------------------------------------------------------ repost matcher

\* abs(old.get("sqm", 0) - new.get("sqm", 0)) <= 3 ; None operands raise TypeError
SqmCloseNoTolerance(old, new) ==
    LET a == Get(old, "sqm", 0)
        b == Get(new, "sqm", 0)
    IN  IF a = NoneInt \/ b = NoneInt THEN "raise"
        ELSE IF a = b THEN "true" ELSE "false"

\* a tolerance test without abs()
SqmCloseOneSided(old, new) ==
    LET a == Get(old, "sqm", 0)
        b == Get(new, "sqm", 0)
    IN  IF a = NoneInt \/ b = NoneInt THEN "raise"
        ELSE IF b - a <= SqmTolerance THEN "true" ELSE "false"

SqmClose(old, new) ==
    LET a == Get(old, "sqm", 0)
        b == Get(new, "sqm", 0)
    IN  IF a = NoneInt \/ b = NoneInt THEN "raise"
        ELSE IF Abs(a - b) <= SqmTolerance THEN "true" ELSE "false"

\* the condition of scraper_with_alerts.py:216-223 for one stored entry,
\* evaluated left to right ("and" short-circuits before the subtraction)
DupCondNoFloor(old, new) ==
    IF /\ Get(old, "city", "None") = Get(new, "city", "None")
       /\ Get(old, "neighborhood", "None") = Get(new, "neighborhood", "None")
       /\ Get(old, "street", "None") = Get(new, "street", "None")
       /\ Get(old, "rooms", NoneInt) = Get(new, "rooms", NoneInt)
    THEN SqmClose(old, new)
    ELSE "false"

DupCond(old, new) ==
    IF /\ Get(old, "city", "None") = Get(new, "city", "None")
       /\ Get(old, "neighborhood", "None") = Get(new, "neighborhood", "None")
       /\ Get(old, "street", "None") = Get(new, "street", "None")
       /\ Get(old, "floor", NoneInt) = Get(new, "floor", NoneInt)
       /\ Get(old, "rooms", NoneInt) = Get(new, "rooms", NoneInt)
    THEN SqmClose(old, new)
    ELSE "false"

\* the condition of archive/main.py:89-97 for one stored entry
DupCondArchiveNoPrice(old, new) ==
    IF /\ Get(old, "street", "None") = Get(new, "street", "None")
       /\ Get(old, "rooms", NoneInt) = Get(new, "rooms", NoneInt)
    THEN LET c == SqmClose(old, new)
         IN  IF c # "true" THEN c
             ELSE IF /\ Truthy(Get(old, "phone", "None"))
                     /\ Truthy(Get(new, "phone", "None"))
                     /\ Get(old, "phone", "None") = Get(new, "phone", "None")
                  THEN "true" ELSE "false"
    ELSE "false"

DupCondArchive(old, new) ==
    IF /\ Get(old, "street", "None") = Get(new, "street", "None")
       /\ Get(old, "rooms", NoneInt) = Get(new, "rooms", NoneInt)
    THEN LET c == SqmClose(old, new)
         IN  IF c # "true" THEN c
             ELSE IF /\ Get(old, "price", NoneInt) # Get(new, "price", NoneInt)
                     /\ Truthy(Get(old, "phone", "None"))
                     /\ Truthy(Get(new, "phone", "None"))
                     /\ Get(old, "phone", "None") = Get(new, "phone", "None")
                  THEN "true" ELSE "false"
    ELSE "false"

Cond(v, old, new) == IF v = "advanced" THEN DupCond(old, new) ELSE DupCondArchive(old, new)

\* for url, old in seen.items(): if <condition>: return url, old
\* -> [kind |-> "match", idx |-> position of the returned entry]
\*    [kind |-> "none",  idx |-> 0]     return None, None
\*    [kind |-> "raise", idx |-> position whose condition raised TypeError]
RECURSIVE Scan(_, _, _, _)
Scan(v, s, new, i) ==
    IF i > Len(s) THEN [kind |-> "none", idx |-> 0]
    ELSE LET c == Cond(v, s[i].data, new)
         IN  IF c = "true" THEN [kind |-> "match", idx |-> i]
             ELSE IF c = "raise" THEN [kind |-> "raise", idx |-> i]
             ELSE Scan(v, s, new, i + 1)

is_possible_duplicate(v, s, new) == Scan(v, s, new, 1)

\* --------------------------------------------------------- contact resolver

Cached(c, id) == id \in DOMAIN c

CacheSet(c, id, v) == [x \in (DOMAIN c) \cup {id} |-> IF x = id THEN v ELSE c[x]]

\* scraper_with_alerts.py get_contact_info.  `fails` = number of attempts that
\* end in the except branches before one succeeds (retry_count: all of them);
\* `resp` = the value of `brokerPhone or phone` in the successful response.
\* -> [phone: returned value, cache: phone_cache afterwards,
\*     requests: GETs sent to the contact endpoint, saved: save_phone_cache ran,
\*     outcome: "hit" (line 152), "ok" (line 172) or "failed" (line 190)]
get_contact_info_extra_attempt(c, ads_id, fails, resp) ==
    IF Cached(c, ads_id)
    THEN [phone |-> c[ads_id], cache |-> c, requests |-> 0, saved |-> FALSE,
          outcome |-> "hit"]
    ELSE IF fails < retry_count
    THEN [phone |-> resp,
          cache |-> CacheSet(c, ads_id, IF Truthy(resp) THEN resp ELSE "None"),
          requests |-> fails + 1, saved |-> TRUE, outcome |-> "ok"]
    ELSE [phone |-> "None", cache |-> CacheSet(c, ads_id, "None"),
          requests |-> retry_count + 1, saved |-> TRUE, outcome |-> "failed"]

get_contact_info_no_cache(c, ads_id, fails, resp) ==
    IF fails < retry_count
    THEN [phone |-> resp,
          cache |-> CacheSet(c, ads_id, IF Truthy(resp) THEN resp ELSE "None"),
          requests |-> fails + 1, saved |-> TRUE, outcome |-> "ok"]
    ELSE [phone |-> "None", cache |-> CacheSet(c, ads_id, "None"),
          requests |-> retry_count, saved |-> TRUE, outcome |-> "failed"]

get_contact_info_retry_none(c, ads_id, fails, resp) ==
    IF Cached(c, ads_id) /\ c[ads_id] # "None"
    THEN [phone |-> c[ads_id], cache |-> c, requests |-> 0, saved |-> FALSE,
          outcome |-> "hit"]
    ELSE IF fails < retry_count
    THEN [phone |-> resp,
          cache |-> CacheSet(c, ads_id, IF Truthy(resp) THEN resp ELSE "None"),
          requests |-> fails + 1, saved |-> TRUE, outcome |-> "ok"]
    ELSE [phone |-> "None", cache |-> CacheSet(c, ads_id, "None"),
          requests |-> retry_count, saved |-> TRUE, outcome |-> "failed"]

get_contact_info(c, ads_id, fails, resp) ==
    IF Cached(c, ads_id)
    THEN [phone |-> c[ads_id], cache |-> c, requests |-> 0, saved |-> FALSE,
          outcome |-> "hit"]
    ELSE IF fails < retry_count
    THEN [phone |-> resp,
          cache |-> CacheSet(c, ads_id, IF Truthy(resp) THEN resp ELSE "None"),
          requests |-> fails + 1, saved |-> TRUE, outcome |-> "ok"]
    ELSE [phone |-> "None", cache |-> CacheSet(c, ads_id, "None"),
          requests |-> retry_count, saved |-> TRUE, outcome |-> "failed"]

\* archive/main.py get_contact_phone: one GET, any exception gives None
get_contact_phone(ok, resp) == IF ok THEN resp ELSE "None"

\* ------------------------------------------------------------ notifications

\* the three messages handed to send_telegram
PriceChangedMsg(url, old_price, data) ==
    [type |-> "PriceChanged", url |-> url, old_url |-> "",
     old_price |-> old_price, price |-> data.price, data |-> data]

ProbableRepostMsg(url, old_url, old_data, data) ==
    [type |-> "ProbableRepost", url |-> url, old_url |-> old_url,
     old_price |-> old_data.price, price |-> data.price, data |-> data]

NewMsg(url, data) ==
    [type |-> "New", url |-> url, old_url |-> "",
     old_price |-> NoneInt, price |-> data.price, data |-> data]

\* ------------------------------------------- classification of one listing

\* scraper_with_alerts.py:368-373: the alert condition after a location match
ExactRepostAlways(old_data, data) == TRUE

ExactRepost(old_data, data) ==
    /\ Get(old_data, "sqm", NoneInt) = Get(data, "sqm", NoneInt)
    /\ Get(old_data, "phone", "None") = data.phone
    /\ Get(old_data, "price", NoneInt) # data.price

\* One pass through the body of the per-listing loop for a record with a token:
\* scraper_with_alerts.py:332-413 (v = "advanced"), archive/main.py:114-159.
\* -> [class, seen: the dict afterwards, saves: calls of save_seen,
\*     sent: messages handed to send_telegram in order, dup: matcher result,
\*     ops: the side effects in program order]
ClassifyKnownNoUpdate(v, s, url, data) ==
    IF Lookup(s, url).price # data.price
    THEN [class |-> "PriceChanged", seen |-> s, saves |-> 1,
          sent |-> <<PriceChangedMsg(url, Lookup(s, url).price, data)>>,
          dup |-> [kind |-> "none", idx |-> 0],
          ops |-> <<"put", "save", "send">>]
    ELSE [class |-> "Unchanged", seen |-> s, saves |-> 0, sent |-> <<>>,
          dup |-> [kind |-> "none", idx |-> 0], ops |-> <<>>]

ClassifyKnownAlwaysAlert(v, s, url, data) ==
    [class |-> "PriceChanged", seen |-> Put(s, url, data), saves |-> 1,
     sent |-> <<PriceChangedMsg(url, Lookup(s, url).price, data)>>,
     dup |-> [kind |-> "none", idx |-> 0],
     ops |-> <<"put", "save", "send">>]

ClassifyKnownSendFirst(v, s, url, data) ==
    IF Lookup(s, url).price # data.price
    THEN [class |-> "PriceChanged", seen |-> Put(s, url, data), saves |-> 1,
          sent |-> <<PriceChangedMsg(url, Lookup(s, url).price, data)>>,
          dup |-> [kind |-> "none", idx |-> 0],
          ops |-> <<"send", "put", "save">>]
    ELSE [class |-> "Unchanged", seen |-> s, saves |-> 0, sent |-> <<>>,
          dup |-> [kind |-> "none", idx |-> 0], ops |-> <<>>]

ClassifyKnown(v, s, url, data) ==
    IF Lookup(s, url).price # data.price
    THEN [class |-> "PriceChanged", seen |-> Put(s, url, data), saves |-> 1,
          sent |-> <<PriceChangedMsg(url, Lookup(s, url).price, data)>>,
          dup |-> [kind |-> "none", idx |-> 0],
          ops |-> <<"put", "save", "send">>]
    ELSE [class |-> "Unchanged", seen |-> s, saves |-> 0, sent |-> <<>>,
          dup |-> [kind |-> "none", idx |-> 0], ops |-> <<>>]

ClassifyUnseenSilent(v, s, url, data) ==
    LET dup == is_possible_duplicate(v, s, data)
    IN  IF dup.kind = "raise"
        THEN [class |-> "Raised", seen |-> s, saves |-> 0, sent |-> <<>>,
              dup |-> dup, ops |-> <<>>]
        ELSE [class |-> IF dup.kind = "match" THEN "ProbableRepost" ELSE "New",
              seen |-> Put(s, url, data), saves |-> 1, sent |-> <<>>,
              dup |-> dup, ops |-> <<"put", "save">>]

ClassifyUnseenNoSave(v, s, url, data) ==
    LET dup == is_possible_duplicate(v, s, data)
    IN  IF dup.kind = "raise"
        THEN [class |-> "Raised", seen |-> s, saves |-> 0, sent |-> <<>>,
              dup |-> dup, ops |-> <<>>]
        ELSE IF dup.kind = "match"
        THEN LET old_url == s[dup.idx].url
                 old_data == s[dup.idx].data
             IN  IF v = "archive" \/ ExactRepost(old_data, data)
                 THEN [class |-> "ProbableRepost", seen |-> Put(s, url, data),
                       saves |-> 1,
                       sent |-> <<ProbableRepostMsg(url, old_url, old_data, data)>>,
                       dup |-> dup, ops |-> <<"send", "put", "save">>]
                 ELSE [class |-> "SimilarNotExact", seen |-> Put(s, url, data),
                       saves |-> 1, sent |-> <<>>, dup |-> dup,
                       ops |-> <<"put", "save">>]
        ELSE [class |-> "New", seen |-> Put(s, url, data), saves |-> 0,
              sent |-> <<NewMsg(url, data)>>, dup |-> dup,
              ops |-> <<"send", "put">>]

ClassifyUnseen(v, s, url, data) ==
    LET dup == is_possible_duplicate(v, s, data)
    IN  IF dup.kind = "raise"
        THEN [class |-> "Raised", seen |-> s, saves |-> 0, sent |-> <<>>,
              dup |-> dup, ops |-> <<>>]
        ELSE IF dup.kind = "match"
        THEN LET old_url == s[dup.idx].url
                 old_data == s[dup.idx].data
             IN  IF v = "archive" \/ ExactRepost(old_data, data)
                 THEN [class |-> "ProbableRepost", seen |-> Put(s, url, data),
                       saves |-> 1,
                       sent |-> <<ProbableRepostMsg(url, old_url, old_data, data)>>,
                       dup |-> dup, ops |-> <<"send", "put", "save">>]
                 ELSE [class |-> "SimilarNotExact", seen |-> Put(s, url, data),
                       saves |-> 1, sent |-> <<>>, dup |-> dup,
                       ops |-> <<"put", "save">>]
        ELSE [class |-> "New", seen |-> Put(s, url, data), saves |-> 1,
              sent |-> <<NewMsg(url, data)>>, dup |-> dup,
              ops |-> <<"send", "put", "save">>]

ClassifyAlwaysMatch(v, s, url, data) == ClassifyUnseen(v, s, url, data)

Classify(v, s, url, data) ==
    IF url \in Keys(s) THEN ClassifyKnown(v, s, url, data)
    ELSE ClassifyUnseen(v, s, url, data)

\* send_telegram(text): ok = the POST succeeded with a 2xx answer; anything
\* else raises inside the try and is logged by `except Exception`
send_telegram_raising(ok) == IF ok THEN "sent" ELSE "raise"

send_telegram(ok) == IF ok THEN "sent" ELSE "logged"

\* the classification r of a record against the store s with the outcome of
\* its send_telegram call, if it makes one.  An exception leaving
\* send_telegram would leave the body at the call: the statements after it
\* would not run.
Deliver(r, s, ok) ==
    LET out == IF \E i \in 1..Len(r.ops) : r.ops[i] = "send"
               THEN send_telegram(ok) ELSE "none"
        cut == out = "raise" /\ r.ops[1] = "send"
    IN  [class |-> IF out = "raise" THEN "Raised" ELSE r.class,
         seen |-> IF cut THEN s ELSE r.seen,
         saves |-> IF cut THEN 0 ELSE r.saves,
         sent |-> r.sent, dup |-> r.dup,
         ops |-> IF cut THEN <<"send">> ELSE r.ops,
         delivery |-> out]

Body(v, s, url, data, ok) == Deliver(Classify(v, s, url, data), s, ok)

\* ------------------------------------------------------------------ bounds

MaxPages == 2       \* largest totalPages the feed reports
MaxListings == 2    \* most records one cycle fetches

\* the upstream values the feed and the contact endpoint are drawn from
Tokens == {"t1", "t2"}
FeedItems ==
    [token : Tokens \cup {"ABSENT", ""}, price : {2000000, 2100000}, rooms : {3},
     street : {"Herzl"}, neighborhood : {"ABSENT"}, city : {"Rishon"},
     floor : {3}, sqm : {70, 71, AbsentInt, NoneInt}, adType : {"private"}]
\* a record without identifier is skipped whatever else it holds; the records
\* with a missing or null area have the first price and the first identifier,
\* the records with the second area the second identifier
Feed ==
    {it \in FeedItems :
        /\ Truthy(it.token) \/ (it.price = 2000000 /\ it.sqm = 70)
        /\ it.sqm \in {AbsentInt, NoneInt} => (it.price = 2000000 /\ it.token # "t2")
        /\ it.sqm = 71 => it.token # "t1"}
PhoneResponses == {"None", "050-1111111"}
\* contact lookups either succeed at once or fail on every attempt
LookupFails == {0, retry_count}
Lookups == {n \in [fails : LookupFails, resp : PhoneResponses] :
               n.fails = retry_count => n.resp = "None"}

\* os.getenv of the two Telegram credentials: None, an empty or a set string
Environments == [token : {"None", "bot-token"}, chat : {"", "chat-id"}]

NoFile == [exists |-> FALSE, torn |-> FALSE, content |-> <<>>]
EmptyCache == [x \in {} |-> "None"]

\* phone_cache.json: absent, written by save_phone_cache(), or torn by a kill
\* inside save_phone_cache()
NoCacheFile == [exists |-> FALSE, torn |-> FALSE, content |-> EmptyCache]
save_phone_cache(c) == [exists |-> TRUE, torn |-> FALSE, content |-> c]
TornCacheFile == [exists |-> TRUE, torn |-> TRUE, content |-> EmptyCache]

\* load_or_initialize_cache(): the file's content; {} when there is no file
\* and when json.load raises (the except branch)
load_phone_cache(f) == IF f.exists /\ ~f.torn THEN f.content ELSE EmptyCache

\* ------------------------------------------------ locals of one iteration

\* `step` holds the locals of the running loop iteration and, once its body
\* ran, what the body did: which operation ran, on which record, from which
\* store, which messages it sent and which side effects it had.
NoStep == [op |-> "none"]

\* after the contact lookup and the normalizer, before the classification
\* look = [requests, outcome] of the contact lookup
Resolved(o, it, data, look, pre_cache) ==
    [op |-> o, item |-> it, url |-> Url(it.token), data |-> data,
     requests |-> look.requests, lookup |-> look.outcome, pre_cache |-> pre_cache]

ListingStep(o, it, data, pre, pre_file, r, look, pre_cache) ==
    [op |-> o, item |-> it, url |-> Url(it.token), data |-> data,
     pre_seen |-> pre, pre_file |-> pre_file, pre_cache |-> pre_cache,
     class |-> r.class, sent |-> r.sent,
     saves |-> r.saves, dup |-> r.dup, ops |-> r.ops, delivery |-> r.delivery,
     requests |-> look.requests, lookup |-> look.outcome]

SkipStep(o, it, pre, pre_file, pre_cache) ==
    [op |-> o, item |-> it, url |-> "", data |-> [price |-> NoneInt],
     pre_seen |-> pre, pre_file |-> pre_file, pre_cache |-> pre_cache,
     class |-> "Skipped", sent |-> <<>>,
     saves |-> 0, dup |-> [kind |-> "none", idx |-> 0], ops |-> <<>>,
     delivery |-> "none", requests |-> 0, lookup |-> "none"]

\* `while page <= total_pages`, the test of the pagination loop
MorePagesStrict(p, tp) == p < tp

MorePages(p, tp) == p <= tp

\* `if len(all_listings) == 0: return`
NoListingsNever(n) == FALSE

NoListings(n) == n = 0

\* after a page fetch: how fetch_listings ended ("ok": line 278, "failed":
\* line 287 or 295, "html": line 259), unless it ended well in which phase
\* and with how many records of earlier pages in all_listings, and the search
\* filter the request was built from (line 246)
FetchStep(o) ==
    [op |-> "fetch", outcome |-> o,
     phase |-> IF o = "ok" THEN "none" ELSE phase,
     had |-> IF o = "ok" THEN 0 ELSE n_listings,
     params |-> API_PARAMS]

\* no record is in the body of the loop
Idle(s) == [class |-> "none", seen |-> s, ops |-> <<>>]

\* the process was killed at position `at`, in an iteration that started from
\* the store s, after the first k side effects of the body whose whole
\* effect on the record (url, data) is r: the store in memory at that moment,
\* and the store file
\* torn: the kill came inside save_seen(); cache_torn: inside
\* save_phone_cache()
KillStep(at, s, url, data, r, k, torn, cache_torn) ==
    [op |-> "kill", at |-> at, boundary |-> s,
     memory |-> IF \E i \in 1..k : r.ops[i] = "put" THEN r.seen ELSE s,
     done |-> SubSeq(r.ops, 1, k),
     url |-> url, data |-> data, class |-> r.class,
     torn |-> torn, cache_torn |-> cache_torn]

\* seen.json after the kill: as it was, rewritten by a save that ended, or
\* truncated by the save the kill interrupted
KillFile(f, r, k, torn) ==
    IF torn THEN TornFile
    ELSE IF \E i \in 1..k : r.ops[i] = "save" THEN save_seen(r.seen) ELSE f

\* the statement after the first k side effects of the body is save_seen(),
\* or the population pass is at its save_seen() of archive/main.py:61
SaveRunning(r, k) ==
    \/ pc = "body" /\ k < Len(r.ops) /\ r.ops[k + 1] = "save"
    \/ variant = "archive" /\ phase = "populate" /\ pc \in {"get", "advance"}

\* get_contact_info is at save_phone_cache() (lines 173, 188): the record at
\* the head of the loop has an identifier that is not in the cache
CacheSaveRunning ==
    /\ variant = "advanced" /\ pc = "classify"
    /\ \E it \in Feed : Truthy(it.token) /\ ~Cached(phone_cache, it.token)

\* module level, scraper_with_alerts.py:30 and archive/main.py:15, negated:
\* `if not TELEGRAM_BOT_TOKEN or not TELEGRAM_CHAT_ID: raise RuntimeError`
CredentialsOkTokenOnly(env) == Truthy(env.token)

CredentialsOk(env) == Truthy(env.token) /\ Truthy(env.chat)

\* ---------------------------------------------------------------- the process

Init ==
    /\ variant \in {"advanced", "archive"}
    /\ pc = "boot"
    /\ phase = "none"
    /\ run_once = FALSE
    /\ API_PARAMS = 1
    /\ seen = <<>>
    /\ seen_file = NoFile
    /\ phone_cache = EmptyCache
    /\ cache_file = NoCacheFile
    /\ page = 1
    /\ total_pages = 1
    /\ n_listings = 0
    /\ index = 0
    /\ first_run = FALSE
    /\ step = NoStep

\* entering check_yad2_listings(): page = 1, total_pages = 1, all_listings = []
StartCycleKeepsFilter(ph, params) ==
    /\ pc' = "fetch"
    /\ phase' = ph
    /\ UNCHANGED API_PARAMS
    /\ page' = 1
    /\ total_pages' = 1
    /\ n_listings' = 0
    /\ index' = 0

StartCycle(ph, params) ==
    /\ pc' = "fetch"
    /\ phase' = ph
    /\ API_PARAMS' = params
    /\ page' = 1
    /\ total_pages' = 1
    /\ n_listings' = 0
    /\ index' = 0

\* leaving the cycle function for a position outside it
Leave(p) ==
    /\ pc' = p
    /\ phase' = "none"
    /\ page' = 1
    /\ total_pages' = 1
    /\ n_listings' = 0
    /\ index' = 0
    /\ UNCHANGED API_PARAMS

\* main_loop after check_yad2_listings() returned normally in phase ph
Returned(ph) ==
    CASE ph = "init1" -> StartCycle("init2", 2) /\ UNCHANGED first_run
      [] ph = "init2" -> StartCycle("search1", 1) /\ first_run' = FALSE
      [] ph = "search1" -> StartCycle("search2", 2) /\ UNCHANGED first_run
      [] ph = "search2" -> Leave(IF run_once THEN "exited" ELSE "sleep")
                           /\ UNCHANGED first_run

\* main_loop after an exception left check_yad2_listings() in phase ph:
\* the initial pass runs outside any try, the searches inside one
Raised(ph) ==
    IF ph \in {"init1", "init2"}
    THEN Leave("crashed") /\ first_run' = FALSE
    ELSE Leave(IF run_once THEN "exited" ELSE "sleep") /\ UNCHANGED first_run

\* __main__ / main_loop: load both files, then the initial pass if seen is empty
BootAdvanced ==
    /\ pc = "boot" /\ variant = "advanced"
    /\ \E env \in Environments :
          CredentialsOk(env) /\ step' = [op |-> "boot", env |-> env]
    /\ \E ro \in BOOLEAN : run_once' = ro
    /\ ~LoadRaises(seen_file)
    /\ seen' = load_seen(seen_file)
    /\ phone_cache' = load_phone_cache(cache_file)
    /\ IF Len(load_seen(seen_file)) = 0
       THEN StartCycle("init1", 1) /\ first_run' = TRUE
       ELSE StartCycle("search1", 1) /\ first_run' = FALSE
    /\ UNCHANGED <<variant, seen_file, cache_file>>

\* the RuntimeError of the credential test ends the import of the module:
\* nothing after line 31 (archive: line 16) runs
StartupFails ==
    /\ pc = "boot"
    /\ \E env \in Environments :
          ~CredentialsOk(env) /\ step' = [op |-> "startup_failed", env |-> env]
    /\ pc' = "failed"
    /\ UNCHANGED <<variant, phase, run_once, API_PARAMS, seen, seen_file, phone_cache,
                   cache_file, page, total_pages, n_listings, index, first_run>>

\* load_or_initialize_seen() on a torn seen.json: the JSONDecodeError of
\* json.load leaves main_loop (archive: the module) and ends the process
LoadFails ==
    /\ pc = "boot"
    /\ LoadRaises(seen_file)
    /\ \E env \in Environments :
          CredentialsOk(env) /\ step' = [op |-> "load_failed", env |-> env]
    /\ pc' = "crashed"
    /\ UNCHANGED <<variant, phase, run_once, API_PARAMS, seen, seen_file, phone_cache,
                   cache_file, page, total_pages, n_listings, index, first_run>>

\* one iteration of `while page <= total_pages` with the loop test after it.
\* First disjunct: fetch_listings returned (results, total_pages); second: it
\* returned ([], 0) after MAX_RETRIES timeouts or errors; third: it returned a
\* bare [] after MAX_RETRIES HTML answers and the tuple assignment raised.
\* page and total_pages are not read after the loop: they leave it with the
\* values they entered it with
FetchPage ==
    /\ pc = "fetch" /\ variant = "advanced"
    /\ UNCHANGED <<variant, run_once, seen, seen_file, phone_cache, cache_file>>
    /\ \/ \E n \in 0..(MaxListings - n_listings), tp \in 0..MaxPages :
          /\ step' = FetchStep("ok")
          /\ IF MorePages(page + 1, tp)
             THEN /\ n_listings' = n_listings + n
                  /\ total_pages' = tp
                  /\ page' = page + 1
                  /\ UNCHANGED <<pc, phase, API_PARAMS, index, first_run>>
             ELSE IF NoListings(n_listings + n)
             THEN Returned(phase)
             ELSE /\ n_listings' = n_listings + n
                  /\ total_pages' = 1
                  /\ page' = 1
                  /\ pc' = "classify"
                  /\ UNCHANGED <<phase, API_PARAMS, index, first_run>>
       \/ /\ step' = FetchStep("failed")
          /\ IF NoListings(n_listings)
             THEN Returned(phase)
             ELSE /\ total_pages' = 1
                  /\ page' = 1
                  /\ pc' = "classify"
                  /\ UNCHANGED <<phase, API_PARAMS, index, first_run, n_listings>>
       \/ /\ step' = FetchStep("html")
          /\ Raised(phase)

\* scraper_with_alerts.py:321-330, the head of one iteration of
\* `for index, item in enumerate(all_listings, 1)`: the record at this position
\* and the contact endpoint's answer are drawn when they are read
ResolveAdvanced ==
    /\ pc = "classify" /\ variant = "advanced"
    /\ \E it \in Feed, net \in Lookups :
        IF ~Truthy(it.token)
        THEN /\ net.fails = 0 /\ net.resp = "None"
             /\ step' = SkipStep("classify", it, seen, seen_file, phone_cache)
             /\ pc' = "advance"
             /\ UNCHANGED <<phone_cache, cache_file>>
        ELSE LET g == get_contact_info(phone_cache, it.token, net.fails, net.resp)
             IN  /\ Cached(phone_cache, it.token) => (net.fails = 0 /\ net.resp = "None")
                 /\ step' = Resolved("resolved", it,
                                     extract_listing_data(it, g.phone),
                                     [requests |-> g.requests, outcome |-> g.outcome],
                                     phone_cache)
                 /\ pc' = "body"
                 /\ phone_cache' = g.cache
                 /\ cache_file' = IF g.saved THEN save_phone_cache(g.cache)
                                  ELSE cache_file
    /\ UNCHANGED <<variant, phase, run_once, API_PARAMS, seen, seen_file, page,
                   total_pages, n_listings, index, first_run>>

\* scraper_with_alerts.py:332-413, the rest of the iteration: no await in it
ClassifyAdvanced ==
    /\ pc = "body" /\ variant = "advanced"
    /\ \E ok \in BOOLEAN :
       LET r == Body("advanced", seen, step.url, step.data, ok)
       IN  /\ r.delivery = "none" => ok
           /\ step' = ListingStep("classify", step.item, step.data, seen, seen_file,
                                  r, [requests |-> step.requests, outcome |-> step.lookup],
                                  step.pre_cache)
           /\ seen' = r.seen
           /\ seen_file' = IF r.saves > 0 THEN save_seen(r.seen) ELSE seen_file
    /\ pc' = "advance"
    /\ UNCHANGED <<variant, phase, run_once, API_PARAMS, phone_cache, cache_file, page,
                   total_pages, n_listings, index, first_run>>

\* the loop's back edge: an exception leaves the function, the last record
\* ends it, any other record is followed by the next one
AdvanceAdvanced ==
    /\ pc = "advance" /\ variant = "advanced"
    /\ step' = [op |-> "next"]
    /\ IF step.class = "Raised" THEN Raised(phase)
       ELSE IF index + 1 = n_listings THEN Returned(phase)
       ELSE /\ index' = index + 1
            /\ pc' = "classify"
            /\ UNCHANGED <<phase, API_PARAMS, page, total_pages, n_listings, first_run>>
    /\ UNCHANGED <<variant, run_once, seen, seen_file, phone_cache, cache_file>>

\* asyncio.sleep(check_interval) is over: the next round starts with search 1
Wake ==
    /\ pc = "sleep" /\ variant = "advanced"
    /\ StartCycle("search1", 1)
    /\ step' = [op |-> "wake"]
    /\ UNCHANGED <<variant, run_once, seen, seen_file, phone_cache, cache_file, first_run>>

\* the operator stops a continuous process between two rounds
Stop ==
    /\ pc = "sleep"
    /\ Leave("exited")
    /\ step' = [op |-> "stop"]
    /\ UNCHANGED <<variant, run_once, seen, seen_file, phone_cache, cache_file, first_run>>

\* the program is started again (next scheduled run): fresh globals, same files
Restart ==
    /\ pc \in {"exited", "crashed"}
    /\ pc' = "boot"
    /\ seen' = <<>>
    /\ phone_cache' = EmptyCache
    /\ API_PARAMS' = 1
    /\ run_once' = FALSE
    /\ step' = [op |-> "restart"]
    /\ UNCHANGED <<variant, phase, seen_file, cache_file, page, total_pages,
                   n_listings, index, first_run>>

\* the process is killed (signal, power loss, end of the runner's time) while
\* a cycle runs: between two statements of the loop body (k of its side
\* effects done), at the head of an iteration, during a fetch, or inside one
\* of the two file writes.  A file that is not being written stays as it is,
\* one that is being written is left torn; the memory is lost.  A kill after
\* the last statement of the body is the kill with all its side effects done.
Crash ==
    /\ \/ pc \in {"fetch", "classify", "body", "get", "populate", "store"}
       \/ /\ pc = "advance" /\ variant = "archive" /\ phase = "populate"
          /\ index + 1 = n_listings
    /\ LET r == IF pc = "body" THEN Classify(variant, seen, step.url, step.data)
                ELSE Idle(seen)
       IN  \E k \in 0..Len(r.ops), torn \in BOOLEAN, cache_torn \in BOOLEAN :
              /\ torn => SaveRunning(r, k)
              /\ cache_torn => CacheSaveRunning
              /\ seen_file' = KillFile(seen_file, r, k, torn)
              /\ cache_file' = IF cache_torn THEN TornCacheFile ELSE cache_file
              /\ step' = IF pc = "body"
                         THEN KillStep(pc, seen, step.url, step.data, r, k,
                                       torn, cache_torn)
                         ELSE KillStep(pc, seen, "", [price |-> NoneInt], r, k,
                                       torn, cache_torn)
    /\ Leave("crashed")
    /\ seen' = <<>>
    /\ phone_cache' = EmptyCache
    /\ first_run' = FALSE
    /\ run_once' = FALSE
    /\ UNCHANGED variant

\* -------------------------------------------------------- archive/main.py

\* load_or_initialize_seen(), first half: the file exists and is loaded, or
\* the silent population starts with its own GET
BootArchive ==
    /\ pc = "boot" /\ variant = "archive"
    /\ \E env \in Environments :
          CredentialsOk(env) /\ step' = [op |-> "boot", env |-> env]
    /\ ~LoadRaises(seen_file)
    /\ seen' = load_seen(seen_file)
    /\ pc' = "get"
    /\ phase' = IF seen_file.exists THEN "loop" ELSE "populate"
    /\ first_run' = ~seen_file.exists
    /\ UNCHANGED <<variant, run_once, API_PARAMS, seen_file, phone_cache, cache_file,
                   page, total_pages, n_listings, index>>

\* requests.get(API_URL) + res.json().  First disjunct: n > 0 records; second
\* and fourth: no record (the population saves the empty dict, the cycle just
\* ends); third and fifth: an exception, uncaught at module level in the
\* population, caught by check_yad2_json's own try in the loop
GetArchive ==
    /\ pc = "get" /\ variant = "archive"
    /\ UNCHANGED <<variant, run_once, API_PARAMS, seen, phone_cache, cache_file,
                   page, total_pages, index>>
    /\ \/ \E n \in 1..MaxListings :
            /\ step' = FetchStep("ok")
            /\ n_listings' = n
            /\ pc' = IF phase = "populate" THEN "populate" ELSE "classify"
            /\ UNCHANGED <<phase, first_run, seen_file>>
       \/ /\ phase = "populate"
          /\ step' = FetchStep("ok")
          /\ seen_file' = save_seen(seen)
          /\ pc' = "sleep" /\ phase' = "loop" /\ first_run' = FALSE
          /\ UNCHANGED n_listings
       \/ /\ phase = "populate"
          /\ step' = FetchStep("failed")
          /\ pc' = "crashed" /\ phase' = "none" /\ first_run' = FALSE
          /\ UNCHANGED <<n_listings, seen_file>>
       \/ /\ phase = "loop"
          /\ \E o \in {"ok", "failed"} : step' = FetchStep(o)
          /\ pc' = "sleep"
          /\ UNCHANGED <<phase, first_run, n_listings, seen_file>>

\* archive/main.py:57-60 and 110-121, the head of one iteration: token test,
\* extract_listing_data with its contact lookup
ResolveArchive ==
    /\ pc \in {"populate", "classify"} /\ variant = "archive"
    /\ \E it \in Feed, ok \in BOOLEAN, resp \in PhoneResponses :
        /\ (~Truthy(it.token) \/ ~ok) => resp = "None"
        /\ ~Truthy(it.token) => ok
        /\ IF ~Truthy(it.token)
           THEN step' = SkipStep(pc, it, seen, seen_file, phone_cache) /\ pc' = "advance"
           ELSE /\ step' = Resolved("resolved", it,
                     extract_listing_data_archive(it, get_contact_phone(ok, resp)),
                     [requests |-> 1, outcome |-> IF ok THEN "ok" ELSE "failed"],
                     phone_cache)
                /\ pc' = IF pc = "populate" THEN "store" ELSE "body"
    /\ UNCHANGED <<variant, phase, run_once, API_PARAMS, seen, seen_file, phone_cache,
                   cache_file, page, total_pages, n_listings, index, first_run>>

\* load_or_initialize_seen(), line 60: seen[url] = extract_listing_data(item)
PopulateArchive ==
    /\ pc = "store" /\ variant = "archive"
    /\ seen' = Put(seen, step.url, step.data)
    /\ step' = ListingStep("populate", step.item, step.data, seen, seen_file,
                   [class |-> "Populated", sent |-> <<>>, saves |-> 0,
                    dup |-> [kind |-> "none", idx |-> 0], ops |-> <<"put">>,
                    delivery |-> "none"],
                   [requests |-> step.requests, outcome |-> step.lookup],
                   step.pre_cache)
    /\ pc' = "advance"
    /\ UNCHANGED <<variant, phase, run_once, API_PARAMS, seen_file, phone_cache,
                   cache_file, page, total_pages, n_listings, index, first_run>>

\* check_yad2_json(), lines 123-159, the rest of the iteration
ClassifyArchive ==
    /\ pc = "body" /\ variant = "archive"
    /\ \E ok \in BOOLEAN :
       LET r == Body("archive", seen, step.url, step.data, ok)
       IN  /\ r.delivery = "none" => ok
           /\ step' = ListingStep("classify", step.item, step.data, seen, seen_file,
                                  r, [requests |-> step.requests, outcome |-> step.lookup],
                                  step.pre_cache)
           /\ seen' = r.seen
           /\ seen_file' = IF r.saves > 0 THEN save_seen(r.seen) ELSE seen_file
    /\ pc' = "advance"
    /\ UNCHANGED <<variant, phase, run_once, API_PARAMS, phone_cache, cache_file, page,
                   total_pages, n_listings, index, first_run>>

\* the back edge of either loop.  A TypeError of the matcher is caught by
\* check_yad2_json's try and ends the cycle; the population saves once after
\* its last record (line 61)
AdvanceArchive ==
    /\ pc = "advance" /\ variant = "archive"
    /\ step' = [op |-> "next"]
    /\ IF step.class = "Raised" \/ index + 1 = n_listings
       THEN /\ pc' = "sleep" /\ phase' = "loop" /\ first_run' = FALSE
            /\ n_listings' = 0 /\ index' = 0
            /\ seen_file' = IF phase = "populate" THEN save_seen(seen) ELSE seen_file
       ELSE /\ index' = index + 1
            /\ pc' = IF phase = "populate" THEN "populate" ELSE "classify"
            /\ UNCHANGED <<phase, first_run, n_listings, seen_file>>
    /\ UNCHANGED <<variant, run_once, API_PARAMS, seen, phone_cache, cache_file, page,
                   total_pages>>

\* time.sleep(120) is over: the next check_yad2_json()
WakeArchive ==
    /\ pc = "sleep" /\ variant = "archive"
    /\ pc' = "get"
    /\ step' = [op |-> "wake"]
    /\ UNCHANGED <<variant, phase, run_once, API_PARAMS, seen, seen_file, phone_cache,
                   cache_file, page, total_pages, n_listings, index, first_run>>

Next ==
    \/ BootAdvanced
    \/ FetchPage
    \/ ResolveAdvanced
    \/ ClassifyAdvanced
    \/ AdvanceAdvanced
    \/ Wake
    \/ BootArchive
    \/ GetArchive
    \/ ResolveArchive
    \/ PopulateArchive
    \/ ClassifyArchive
    \/ AdvanceArchive
    \/ WakeArchive
    \/ Stop
    \/ Restart
    \/ Crash
    \/ StartupFails
    \/ LoadFails

Spec == Init /\ [][Next]_vars

\* ------------------------------------------------ the matcher on its own

\* is_possible_duplicate applied to stores and candidates drawn from a wider
\* set of listings than the feed of Spec: every attribute the two matchers
\* read takes an equal, a different and an absent value.
MaxStore == 2       \* most entries of the scanned store

Phones == {"None", "", "050-1111111", "050-2222222"}

\* a listing as the feed and the contact endpoint give it
MatchBase ==
    [token |-> "c", price |-> 2000000, rooms |-> 3, street |-> "Herzl",
     neighborhood |-> "Neve", city |-> "Rishon", floor |-> 3, sqm |-> 70,
     adType |-> "private", phone |-> "050-1111111"]

MatchListings ==
    [token : {"c"}, price : {2000000, 2100000}, rooms : {3, AbsentInt},
     street : {"Herzl", "ABSENT"}, neighborhood : {"Neve", "ABSENT"},
     city : {"Rishon", "ABSENT"}, floor : {3, 5, AbsentInt},
     sqm : {70, 73, 74, NoneInt, AbsentInt}, adType : {"private"}, phone : Phones]

\* number of attributes in which the listing differs from MatchBase
Diff(r) ==
    Cardinality({f \in {"price", "rooms", "street", "neighborhood", "city", "floor",
                        "sqm", "phone"} : r[f] # MatchBase[f]})

\* stored listings differ from MatchBase in at most one attribute, candidates
\* in at most one besides the price
StoredListings == {r \in MatchListings : Diff(r) <= 1}
Candidates ==
    {r \in MatchListings : Diff([r EXCEPT !.price = MatchBase.price]) <= 1}

StoreToken(i) == <<"s1", "s2", "s3", "s4">>[i]

\* the canonical record the running variant stores for a listing
Canon(v, r) ==
    IF v = "advanced" THEN extract_listing_data(r, r.phone)
    ELSE extract_listing_data_archive(r, r.phone)

InitMatch ==
    /\ variant \in {"advanced", "archive"}
    /\ pc = "match"
    /\ phase = "none"
    /\ run_once = FALSE
    /\ API_PARAMS = 1
    /\ seen_file = NoFile
    /\ phone_cache = EmptyCache
    /\ cache_file = NoCacheFile
    /\ page = 1
    /\ total_pages = 1
    /\ n_listings = 0
    /\ index = 0
    /\ first_run = FALSE
    /\ \E n \in 0..MaxStore, c \in Candidates :
         \E drawn \in [1..n -> StoredListings] :
            LET raws == [i \in 1..n |-> [drawn[i] EXCEPT !.token = StoreToken(i)]]
            IN  /\ seen = [i \in 1..n |->
                             [url |-> Url(raws[i].token),
                              data |-> Canon(variant, raws[i])]]
                /\ step = [op |-> "candidate", item |-> c, url |-> Url(c.token),
                           data |-> Canon(variant, c), raws |-> raws,
                           dup |-> [kind |-> "none", idx |-> 0]]

\* old_url, old_data = is_possible_duplicate(new_item_data)
ApplyMatcher ==
    /\ pc = "match"
    /\ pc' = "matched"
    /\ step' = [step EXCEPT !.op = "matched",
                            !.dup = is_possible_duplicate(variant, seen, step.data)]
    /\ UNCHANGED <<variant, phase, run_once, API_PARAMS, seen, seen_file, phone_cache,
                   cache_file, page, total_pages, n_listings, index, first_run>>

\* save_seen() followed by load_or_initialize_seen() of the next process
ReloadStore ==
    /\ pc = "match"
    /\ pc' = "reloaded"
    /\ seen_file' = save_seen(seen)
    /\ seen' = load_seen(save_seen(seen))
    /\ step' = [op |-> "reloaded", item |-> step.item, url |-> step.url,
                data |-> step.data, raws |-> step.raws, dup |-> step.dup,
                pre_seen |-> seen]
    /\ UNCHANGED <<variant, phase, run_once, API_PARAMS, phone_cache, cache_file, page,
                   total_pages, n_listings, index, first_run>>

\* record number k of the state: the candidate (0) or the k-th stored entry
MatchRecord(k) == IF k = 0 THEN step.data ELSE seen[k].data

\* the condition of is_possible_duplicate for two of the records, each in turn
\* as the stored entry `old` with the other as new_item_data
SwapMatch ==
    /\ pc = "match"
    /\ pc' = "swapped"
    /\ \E i \in 0..Len(seen), j \in 0..Len(seen) :
          /\ i < j
          /\ step' = [op |-> "swapped", item |-> step.item, url |-> step.url,
                      data |-> step.data, raws |-> step.raws, dup |-> step.dup,
                      a |-> MatchRecord(i), b |-> MatchRecord(j),
                      forward |-> Cond(variant, MatchRecord(i), MatchRecord(j)),
                      backward |-> Cond(variant, MatchRecord(j), MatchRecord(i))]
    /\ UNCHANGED <<variant, phase, run_once, API_PARAMS, seen, seen_file, phone_cache,
                   cache_file, page, total_pages, n_listings, index, first_run>>

NextMatch == ApplyMatcher \/ ReloadStore \/ SwapMatch

SpecMatch == InitMatch /\ [][NextMatch]_vars

\* ------------------------------------------- the contact resolver on its own

\* get_contact_info called twice for one identifier, from every cache over
\* Tokens and with every answer of the contact endpoint, the empty phone
\* string included
Caches ==
    UNION {[S -> {"None", "050-1111111", "050-2222222"}] : S \in SUBSET Tokens}

Answers == {n \in [fails : 0..retry_count, resp : Phones] :
               n.fails = retry_count => n.resp = "None"}

CacheFile(c) == IF c = EmptyCache THEN NoCacheFile ELSE save_phone_cache(c)

\* what one call did
Call(g, net) ==
    [phone |-> g.phone, requests |-> g.requests, outcome |-> g.outcome,
     saved |-> g.saved, net |-> net]

NoCall == Call([phone |-> "None", requests |-> 0, outcome |-> "none", saved |-> FALSE],
               [fails |-> 0, resp |-> "None"])

InitResolve ==
    /\ variant = "advanced"
    /\ pc = "resolve"
    /\ phase = "none"
    /\ run_once = FALSE
    /\ API_PARAMS = 1
    /\ seen = <<>>
    /\ seen_file = NoFile
    /\ phone_cache \in Caches
    /\ cache_file = CacheFile(phone_cache)
    /\ page = 1
    /\ total_pages = 1
    /\ n_listings = 0
    /\ index = 0
    /\ first_run = FALSE
    /\ \E id \in Tokens :
          step = [op |-> "call", ads_id |-> id, pre_cache |-> phone_cache,
                  pre_file |-> cache_file, mid_cache |-> phone_cache,
                  first |-> NoCall, second |-> NoCall]

\* phone = await get_contact_info(client, token)
ResolveFirst ==
    /\ pc = "resolve"
    /\ \E net \in Answers :
        LET g == get_contact_info(phone_cache, step.ads_id, net.fails, net.resp)
        IN  /\ phone_cache' = g.cache
            /\ cache_file' = IF g.saved THEN save_phone_cache(g.cache)
                             ELSE cache_file
            /\ step' = [step EXCEPT !.op = "first", !.first = Call(g, net),
                                    !.mid_cache = g.cache]
    /\ pc' = "resolved"
    /\ UNCHANGED <<variant, phase, run_once, API_PARAMS, seen, seen_file, page,
                   total_pages, n_listings, index, first_run>>

\* the same identifier is resolved again, in a later cycle of the process
ResolveAgain ==
    /\ pc = "resolved"
    /\ \E net \in Answers :
        LET g == get_contact_info(phone_cache, step.ads_id, net.fails, net.resp)
        IN  /\ phone_cache' = g.cache
            /\ cache_file' = IF g.saved THEN save_phone_cache(g.cache)
                             ELSE cache_file
            /\ step' = [step EXCEPT !.op = "second", !.second = Call(g, net)]
    /\ pc' = "again"
    /\ UNCHANGED <<variant, phase, run_once, API_PARAMS, seen, seen_file, page,
                   total_pages, n_listings, index, first_run>>

NextResolve == ResolveFirst \/ ResolveAgain

SpecResolve == InitResolve /\ [][NextResolve]_vars

\* --------------------------------------- the pagination loop with its retries

\* check_yad2_listings:307-317 with fetch_listings:244-297 attempt by attempt.
\* `step` holds the locals of the running fetch_listings call (attempt, the
\* requests sent and the delays slept for this page, the answers received,
\* how the call ended) and the log of the loop: the pages whose call returned
\* results, the total page count each of them reported, the calls that gave up.
FailedAnswers == {"html", "timeout", "error"}

MaxReported == 3    \* largest totalPages an answer reports to this loop

\* asyncio.sleep(RETRY_DELAY * (attempt + 1))
RetryDelayFlat(attempt) == RETRY_DELAY

RetryDelay(attempt) == RETRY_DELAY * (attempt + 1)

InitFetch ==
    /\ variant = "advanced"
    /\ pc = "attempt"
    /\ phase = "none"
    /\ run_once = FALSE
    /\ API_PARAMS = 1
    /\ seen = <<>>
    /\ seen_file = NoFile
    /\ phone_cache = EmptyCache
    /\ cache_file = NoCacheFile
    /\ page = 1
    /\ total_pages = 1
    /\ n_listings = 0
    /\ index = 0
    /\ first_run = FALSE
    /\ step = [op |-> "enter", attempt |-> 0, requests |-> 0, sleeps |-> <<>>,
               answers |-> <<>>, result |-> "none",
               fetched |-> <<>>, reported |-> <<>>, failures |-> 0]

\* the locals of fetch_listings when the attempt begins: those of the running
\* call, or those of a new call (attempt = 0)
Started(st) ==
    IF st.result = "running" THEN st
    ELSE [st EXCEPT !.attempt = 0, !.requests = 0, !.sleeps = <<>>,
                    !.answers = <<>>, !.result = "running"]

\* lines 254-256, 282-284, 290-292: sleep, then the next attempt
Retried(st, ans) ==
    [st EXCEPT !.op = "retry", !.attempt = st.attempt + 1,
               !.requests = st.requests + 1,
               !.sleeps = Append(st.sleeps, RetryDelay(st.attempt)),
               !.answers = Append(st.answers, ans)]

\* line 278: return results, total_pages
ReturnedPage(st, p, tp) ==
    [st EXCEPT !.op = "page", !.requests = st.requests + 1,
               !.answers = Append(st.answers, "json"), !.result = "ok",
               !.fetched = Append(st.fetched, p),
               !.reported = Append(st.reported, tp)]

\* lines 259, 287, 295: the last attempt failed too
GaveUp(st, ans, result) ==
    [st EXCEPT !.op = "gave_up", !.requests = st.requests + 1,
               !.answers = Append(st.answers, ans), !.result = result,
               !.failures = st.failures + 1]

\* lines 310 and 315 after `page += 1`: the next page, or the end of the loop
\* with or without records
AfterFetch(p, tp, n) ==
    IF MorePages(p, tp) THEN "attempt"
    ELSE IF n = 0 THEN "returned" ELSE "classify"

\* an attempt gets the JSON answer: n records, total page count tp
AttemptOk ==
    /\ pc = "attempt"
    /\ \E n \in 0..(MaxListings - n_listings), tp \in 0..MaxReported :
          /\ step' = ReturnedPage(Started(step), page, tp)
          /\ n_listings' = n_listings + n
          /\ total_pages' = tp
          /\ page' = page + 1
          /\ pc' = AfterFetch(page + 1, tp, n_listings + n)
    /\ UNCHANGED <<variant, phase, run_once, API_PARAMS, seen, seen_file, phone_cache,
                   cache_file, index, first_run>>

\* an attempt that is not the last one fails: HTML answer, timeout or error
AttemptRetry ==
    /\ pc = "attempt"
    /\ Started(step).attempt < MAX_RETRIES - 1
    /\ \E ans \in FailedAnswers : step' = Retried(Started(step), ans)
    /\ UNCHANGED <<variant, pc, phase, run_once, API_PARAMS, seen, seen_file,
                   phone_cache, cache_file, page, total_pages, n_listings, index,
                   first_run>>

\* a loop that, after a call gave up, keeps the page count it had
AttemptGiveUpGoesOn ==
    /\ pc = "attempt"
    /\ Started(step).attempt = MAX_RETRIES - 1
    /\ \E ans \in {"timeout", "error"} : step' = GaveUp(Started(step), ans, "failed")
    /\ page' = page + 1
    /\ pc' = AfterFetch(page + 1, total_pages, n_listings)
    /\ UNCHANGED <<variant, phase, run_once, API_PARAMS, seen, seen_file, phone_cache,
                   cache_file, total_pages, n_listings, index, first_run>>

\* the last attempt ends in a timeout or an error: return [], 0
AttemptGiveUp ==
    /\ pc = "attempt"
    /\ Started(step).attempt = MAX_RETRIES - 1
    /\ \E ans \in {"timeout", "error"} : step' = GaveUp(Started(step), ans, "failed")
    /\ total_pages' = 0
    /\ page' = page + 1
    /\ pc' = AfterFetch(page + 1, 0, n_listings)
    /\ UNCHANGED <<variant, phase, run_once, API_PARAMS, seen, seen_file, phone_cache,
                   cache_file, n_listings, index, first_run>>

\* the last attempt gets HTML: return [] and the tuple assignment raises
AttemptGiveUpHtml ==
    /\ pc = "attempt"
    /\ Started(step).attempt = MAX_RETRIES - 1
    /\ step' = GaveUp(Started(step), "html", "html")
    /\ pc' = "raised"
    /\ UNCHANGED <<variant, phase, run_once, API_PARAMS, seen, seen_file, phone_cache,
                   cache_file, page, total_pages, n_listings, index, first_run>>

NextFetch == AttemptOk \/ AttemptRetry \/ AttemptGiveUp \/ AttemptGiveUpHtml

\* every request ends (timeout=20) and every sleep ends: the coroutine goes on
SpecFetch == InitFetch /\ [][NextFetch]_vars /\ WF_vars(NextFetch)

\* ------------------------------------------- two cycles over the same feed

\* The loop of check_yad2_listings / check_yad2_json run twice in a row over
\* one list of fetched records (for the advanced variant the records of both
\* searches one after the other), starting from an empty store: no seen.json
\* for the advanced variant, the seen.json holding {} that the population pass
\* over an empty feed wrote (archive/main.py:61) for the archive variant.
\* `step` keeps the list and the log of the running round: the keys put, the
\* keys of the messages handed to send_telegram, the saves and the contact
\* requests, and the phone the lookup of the running iteration returned.
CycleItems == {it \in Feed : it.sqm = 70}

CycleFeeds == UNION {[1..n -> CycleItems] : n \in 1..MaxListings}

InitCycle ==
    /\ variant \in {"advanced", "archive"}
    /\ pc = "listing"
    /\ phase = "none"
    /\ run_once = FALSE
    /\ API_PARAMS = 1
    /\ seen = <<>>
    /\ seen_file = IF variant = "archive" THEN save_seen(<<>>) ELSE NoFile
    /\ phone_cache = EmptyCache
    /\ cache_file = NoCacheFile
    /\ page = 1
    /\ total_pages = 1
    /\ index = 0
    /\ first_run = FALSE
    /\ \E f \in CycleFeeds :
          /\ n_listings = Len(f)
          /\ step = [op |-> "feed", feed |-> f, round |-> 1, completed |-> FALSE,
                     puts |-> <<>>, notes |-> <<>>, saves |-> 0, requests |-> 0,
                     raised |-> FALSE, phone |-> "None"]

\* the urls of the messages in `sent`
Urls(sent) == [i \in 1..Len(sent) |-> sent[i].url]

\* the log after the body did r to the record with key url, its lookup
\* having sent `requests` requests
Logged(st, url, r, requests) ==
    [st EXCEPT !.op = "listing",
               !.puts = IF \E i \in 1..Len(r.ops) : r.ops[i] = "put"
                        THEN Append(st.puts, url) ELSE st.puts,
               !.notes = st.notes \o Urls(r.sent),
               !.saves = st.saves + r.saves,
               !.requests = st.requests + requests,
               !.raised = (r.class = "Raised")]

\* the loop's back edge: an exception or the last record ends the round
CycleGoesOn(raised) ==
    IF raised \/ index + 1 = n_listings
    THEN pc' = (IF step.round = 1 THEN "between" ELSE "done") /\ index' = 0
    ELSE pc' = "listing" /\ index' = index + 1

\* the body of one iteration: what it leaves behind
CycleListing(url, r, requests) ==
    /\ seen' = r.seen
    /\ seen_file' = IF r.saves > 0 THEN save_seen(r.seen) ELSE seen_file
    /\ step' = Logged(step, url, r, requests)
    /\ CycleGoesOn(r.class = "Raised")

\* the log after the contact lookup g of the iteration
Looked(st, g) ==
    [st EXCEPT !.op = "lookup", !.phone = g.phone,
               !.requests = st.requests + g.requests]

\* scraper_with_alerts.py:321-330, the head of one iteration on a record with
\* a token: get_contact_info (awaited) with its cache write, up to the
\* `await asyncio.sleep(0.3)` where the event loop runs other tasks
LookupListingAdvanced ==
    /\ pc = "listing" /\ variant = "advanced"
    /\ Truthy(step.feed[index + 1].token)
    /\ \E net \in Lookups :
        LET g == get_contact_info(phone_cache, step.feed[index + 1].token,
                                  net.fails, net.resp)
        IN  /\ Cached(phone_cache, step.feed[index + 1].token)
                  => (net.fails = 0 /\ net.resp = "None")
            /\ phone_cache' = g.cache
            /\ cache_file' = IF g.saved THEN save_phone_cache(g.cache) ELSE cache_file
            /\ step' = Looked(step, g)
    /\ pc' = "body"
    /\ UNCHANGED <<variant, phase, run_once, API_PARAMS, seen, seen_file, page,
                   total_pages, n_listings, index, first_run>>

\* scraper_with_alerts.py:332-413, the rest of the iteration: no await in it
RunListingAdvanced ==
    /\ pc = "body" /\ variant = "advanced"
    /\ CycleListing(Url(step.feed[index + 1].token),
          Body("advanced", seen, Url(step.feed[index + 1].token),
               extract_listing_data(step.feed[index + 1], step.phone), TRUE),
          0)
    /\ UNCHANGED <<variant, phase, run_once, API_PARAMS, phone_cache, cache_file,
                   page, total_pages, n_listings, first_run>>

\* archive/main.py:109-159, one iteration on a record with a token
RunListingArchive ==
    /\ pc = "listing" /\ variant = "archive"
    /\ Truthy(step.feed[index + 1].token)
    /\ \E ok \in BOOLEAN, resp \in PhoneResponses :
        /\ ~ok => resp = "None"
        /\ CycleListing(Url(step.feed[index + 1].token),
              Body("archive", seen, Url(step.feed[index + 1].token),
                   extract_listing_data_archive(step.feed[index + 1],
                       get_contact_phone(ok, resp)),
                   TRUE),
              1)
    /\ UNCHANGED <<variant, phase, run_once, API_PARAMS, phone_cache, cache_file,
                   page, total_pages, n_listings, first_run>>

\* `if token:` / `if not token: continue` on a record without identifier
SkipListing ==
    /\ pc = "listing"
    /\ ~Truthy(step.feed[index + 1].token)
    /\ step' = [step EXCEPT !.op = "listing", !.raised = FALSE]
    /\ CycleGoesOn(FALSE)
    /\ UNCHANGED <<variant, phase, run_once, API_PARAMS, seen, seen_file, phone_cache,
                   cache_file, page, total_pages, n_listings, first_run>>

\* the inter-cycle sleep is over and the feed returns the same records
NextRound ==
    /\ pc = "between"
    /\ pc' = "listing"
    /\ step' = [step EXCEPT !.op = "round", !.round = 2,
                            !.completed = ~step.raised,
                            !.puts = <<>>, !.notes = <<>>, !.saves = 0,
                            !.requests = 0, !.raised = FALSE]
    /\ UNCHANGED <<variant, phase, run_once, API_PARAMS, seen, seen_file, phone_cache,
                   cache_file, page, total_pages, n_listings, index, first_run>>

NextCycle ==
    \/ LookupListingAdvanced
    \/ RunListingAdvanced
    \/ RunListingArchive
    \/ SkipListing
    \/ NextRound

SpecCycle == InitCycle /\ [][NextCycle]_vars

\* ------------------------------------- the event loop around one cycle

\* The per-listing loop of check_yad2_listings statement by statement, on the
\* asyncio event loop.  pc is the statement the coroutine is at: "head" (322-
\* 323), "lookup" (324), "sleep" (329-330), "read" (332-348 and the
\* classification), "effect" (the next of the body's send_telegram, seen[url]
\* = ..., save_seen()), "done".  At an await that parks the coroutine the
\* event loop may run any other task before the coroutine goes on; that task
\* is modelled by what it can see.  `step` keeps the fetched list, the
\* classification in flight with its side effects still to run, the counts of
\* records read and of iterations completed, the keys put, and the last
\* snapshot another task took.

\* a loop with an await between the statements of the body
SuspendsInBody(p, hit) == (p = "lookup" /\ ~hit) \/ p \in {"sleep", "effect"}

\* the coroutine is parked at an await: in get_contact_info past its cache
\* test (lines 156-182; on a cache hit it returns at 152 without awaiting),
\* and in asyncio.sleep(0.3).  Lines 332-413 hold no await, and send_telegram
\* is a blocking requests.post
Suspends(p, hit) == (p = "lookup" /\ ~hit) \/ p = "sleep"

NoSnapshot ==
    [at |-> "none", index |-> 0, store |-> <<>>, file |-> NoFile, reads |-> 0,
     completed |-> 0, pending |-> <<>>]

InitLoop ==
    /\ variant = "advanced"
    /\ pc = "head"
    /\ phase = "none"
    /\ run_once = FALSE
    /\ API_PARAMS = 1
    /\ seen = <<>>
    /\ seen_file = NoFile
    /\ phone_cache = EmptyCache
    /\ cache_file = NoCacheFile
    /\ page = 1
    /\ total_pages = 1
    /\ index = 0
    /\ first_run = FALSE
    /\ \E f \in CycleFeeds :
          /\ n_listings = Len(f)
          /\ step = [op |-> "feed", feed |-> f, phone |-> "None", url |-> "",
                     class |-> "none", pre_seen |-> <<>>, target |-> <<>>,
                     pending |-> <<>>, reads |-> 0, completed |-> 0,
                     puts |-> <<>>, notes |-> <<>>, looked |-> FALSE,
                     snapshot |-> NoSnapshot]

\* the coroutine runs its next statement: another task may look again
Ran(st, o) == [st EXCEPT !.op = o, !.looked = FALSE]

\* lines 321-323: the next record, `if token:`; the end of the list
HeadOfLoop ==
    /\ pc = "head"
    /\ step' = Ran(step, "head")
    /\ IF index = n_listings THEN pc' = "done" /\ UNCHANGED index
       ELSE IF Truthy(step.feed[index + 1].token)
       THEN pc' = "lookup" /\ UNCHANGED index
       ELSE pc' = "head" /\ index' = index + 1
    /\ UNCHANGED <<variant, phase, run_once, API_PARAMS, seen, seen_file, phone_cache,
                   cache_file, page, total_pages, n_listings, first_run>>

\* lines 324-329: get_contact_info returns, then `if index < len(all_listings)`
LookupDone ==
    /\ pc = "lookup"
    /\ \E net \in Lookups :
        LET g == get_contact_info(phone_cache, step.feed[index + 1].token,
                                  net.fails, net.resp)
        IN  /\ Cached(phone_cache, step.feed[index + 1].token)
                  => (net.fails = 0 /\ net.resp = "None")
            /\ phone_cache' = g.cache
            /\ cache_file' = IF g.saved THEN save_phone_cache(g.cache) ELSE cache_file
            /\ step' = [Ran(step, "lookup") EXCEPT !.phone = g.phone]
    /\ pc' = IF index + 1 < n_listings THEN "sleep" ELSE "read"
    /\ UNCHANGED <<variant, phase, run_once, API_PARAMS, seen, seen_file, page,
                   total_pages, n_listings, index, first_run>>

\* line 330: asyncio.sleep(0.3) is over
SleepDone ==
    /\ pc = "sleep"
    /\ pc' = "read"
    /\ step' = Ran(step, "slept")
    /\ UNCHANGED <<variant, phase, run_once, API_PARAMS, seen, seen_file, phone_cache,
                   cache_file, page, total_pages, n_listings, index, first_run>>

\* lines 332-349 and 363-373: `if url in seen`, the price test, the matcher:
\* the store is read and the record classified; its side effects follow
ReadStore ==
    /\ pc = "read"
    /\ pc' = "effect"
    /\ step' = [Ran(step, "read") EXCEPT
                   !.url = Url(step.feed[index + 1].token),
                   !.class = Classify("advanced", seen, Url(step.feed[index + 1].token),
                                 extract_listing_data(step.feed[index + 1], step.phone)).class,
                   !.target = Classify("advanced", seen, Url(step.feed[index + 1].token),
                                 extract_listing_data(step.feed[index + 1], step.phone)).seen,
                   !.pending = Classify("advanced", seen, Url(step.feed[index + 1].token),
                                 extract_listing_data(step.feed[index + 1], step.phone)).ops,
                   !.pre_seen = seen,
                   !.reads = step.reads + 1]
    /\ UNCHANGED <<variant, phase, run_once, API_PARAMS, seen, seen_file, phone_cache,
                   cache_file, page, total_pages, n_listings, index, first_run>>

\* the next statement of the body with a side effect: send_telegram(message),
\* seen[url] = item_data, save_seen(); after the last one the iteration ends
RunEffect ==
    /\ pc = "effect"
    /\ IF step.pending = <<>>
       THEN /\ pc' = "head" /\ index' = index + 1
            /\ step' = [Ran(step, "next") EXCEPT !.completed = step.completed + 1]
            /\ UNCHANGED <<seen, seen_file>>
       ELSE /\ pc' = "effect" /\ UNCHANGED index
            /\ seen' = IF Head(step.pending) = "put" THEN step.target ELSE seen
            /\ seen_file' = IF Head(step.pending) = "save" THEN save_seen(seen)
                            ELSE seen_file
            /\ step' = [Ran(step, "effect") EXCEPT
                           !.pending = Tail(step.pending),
                           !.puts = IF Head(step.pending) = "put"
                                    THEN Append(step.puts, step.url) ELSE step.puts,
                           !.notes = IF Head(step.pending) = "send"
                                     THEN Append(step.notes, step.url) ELSE step.notes]
    /\ UNCHANGED <<variant, phase, run_once, API_PARAMS, phone_cache, cache_file, page,
                   total_pages, n_listings, first_run>>

\* while the coroutine is parked the event loop runs another task, which sees
\* the module's globals and the file as they are at that moment
OtherTask ==
    /\ pc \in {"lookup", "sleep", "effect"}
    /\ Suspends(pc, pc = "lookup" /\ Cached(phone_cache, step.feed[index + 1].token))
    /\ ~step.looked
    /\ step' = [step EXCEPT !.op = "other", !.looked = TRUE,
                   !.snapshot = [at |-> pc, index |-> index, store |-> seen,
                                 file |-> seen_file, reads |-> step.reads,
                                 completed |-> step.completed,
                                 pending |-> step.pending]]
    /\ UNCHANGED <<variant, pc, phase, run_once, API_PARAMS, seen, seen_file,
                   phone_cache, cache_file, page, total_pages, n_listings, index,
                   first_run>>

NextLoop ==
    \/ HeadOfLoop
    \/ LookupDone
    \/ SleepDone
    \/ ReadStore
    \/ RunEffect
    \/ OtherTask

SpecLoop == InitLoop /\ [][NextLoop]_vars

\* ================================================================== claims

\* the body of the per-listing loop of a cycle ran on a record with a token
Classified == step.op = "classify" /\ step.class # "Skipped"

\* the record has no identifier: token missing, null or empty
NoIdentifier(it) == it.token \in {"ABSENT", "None", ""}

\* the key was in the store before the record was processed
WasSeen == step.url \in Keys(step.pre_seen)

\* every entry of the store before the step is still there, unchanged, in place
OthersKept ==
    /\ Len(seen) >= Len(step.pre_seen)
    /\ \A i \in 1..Len(step.pre_seen) :
          step.pre_seen[i].url # step.url => seen[i] = step.pre_seen[i]

\* the record is stored under its key, whole
Committed ==
    /\ step.url \in Keys(seen)
    /\ Lookup(seen, step.url) = step.data
    /\ step.data.price = step.item.price
    /\ seen_file = save_seen(seen)

SameLocation(b, c) ==
    /\ Get(b, "city", "None") = Get(c, "city", "None")
    /\ Get(b, "neighborhood", "None") = Get(c, "neighborhood", "None")
    /\ Get(b, "street", "None") = Get(c, "street", "None")
    /\ Get(b, "floor", NoneInt) = Get(c, "floor", NoneInt)
    /\ Get(b, "rooms", NoneInt) = Get(c, "rooms", NoneInt)

Numeric(x) == x >= 0

\* C1: a fetched listing whose key is stored with another price sends exactly
\* one PriceChanged message carrying the stored (old) and the fetched (new)
\* price, and the store entry becomes the fetched listing's canonical record.
C1_PriceChanged ==
    (Classified /\ WasSeen
       /\ Lookup(step.pre_seen, step.url).price # step.item.price)
    => /\ Len(step.sent) = 1
       /\ step.sent[1].type = "PriceChanged"
       /\ step.sent[1].url = step.url
       /\ step.sent[1].old_price = Lookup(step.pre_seen, step.url).price
       /\ step.sent[1].price = step.item.price
       /\ Committed
       /\ OthersKept /\ Len(seen) = Len(step.pre_seen)

C1_Witness ==
    /\ Classified /\ WasSeen
    /\ Lookup(step.pre_seen, step.url).price = 2000000
    /\ step.item.price = 2100000
    /\ Len(step.sent) = 1

\* C2: a fetched listing whose key is stored with the same price sends nothing
\* and leaves the store in memory and the store file as they were.
C2_Unchanged ==
    (Classified /\ WasSeen
       /\ Lookup(step.pre_seen, step.url).price = step.item.price)
    => /\ step.sent = <<>>
       /\ seen = step.pre_seen
       /\ seen_file = step.pre_file

C2_Witness ==
    /\ Classified /\ WasSeen
    /\ Lookup(step.pre_seen, step.url).price = step.item.price
    /\ Lookup(step.pre_seen, step.url).sqm # step.data.sqm
    /\ seen = step.pre_seen

\* C3: during the initial population pass (store empty at process start) every
\* record with an identifier is committed and no message is sent.
C3_FirstRunSilent ==
    (first_run /\ step.op \in {"classify", "populate"} /\ step.class # "Skipped")
    => /\ step.sent = <<>>
       /\ step.url \in Keys(seen)

\* the matcher matched the stored entry m for the unseen record of this step
Matched == Classified /\ ~WasSeen /\ step.dup.kind = "match"

MatchedEntry == step.pre_seen[step.dup.idx]

OneRepostMessage ==
    /\ Len(step.sent) = 1
    /\ step.sent[1].type = "ProbableRepost"
    /\ step.sent[1].url = step.url
    /\ step.sent[1].old_url = MatchedEntry.url

NewKeyCommitted ==
    /\ Committed /\ OthersKept
    /\ Len(seen) = Len(step.pre_seen) + 1

\* C4 as stated: outside the first-run pass every unseen listing the matcher
\* matches sends exactly one ProbableRepost message naming both keys, is
\* committed under its key, and the matched record stays as it was.
C4_Original ==
    (~first_run /\ Matched)
    => OneRepostMessage /\ NewKeyCommitted
       /\ Lookup(seen, MatchedEntry.url) = MatchedEntry.data

\* the check of scraper_with_alerts.py:368-373 in the claim's words: same area,
\* same phone value, another price
ExactDuplicate ==
    /\ MatchedEntry.data.sqm = step.data.sqm
    /\ MatchedEntry.data.phone = step.data.phone
    /\ MatchedEntry.data.price # step.item.price

\* C4 amended: ... the price-and-phone variant sends exactly one ProbableRepost
\* message naming both keys; the location-only variant sends it only when the
\* matched entry has exactly the same area, the same phone value and another
\* price, and sends nothing otherwise; in every case the record is committed
\* under its key and the matched record stays as it was.
C4_Amended ==
    (~first_run /\ Matched)
    => /\ IF variant = "archive" \/ ExactDuplicate
          THEN OneRepostMessage ELSE step.sent = <<>>
       /\ NewKeyCommitted
       /\ Lookup(seen, MatchedEntry.url) = MatchedEntry.data

C4_Witness ==
    /\ ~first_run /\ Matched /\ variant = "advanced"
    /\ ExactDuplicate /\ Len(step.sent) = 1

\* exactly one message, New or ProbableRepost, for the key of this step
OneMessageForKey ==
    /\ Len(step.sent) = 1
    /\ step.sent[1].type \in {"New", "ProbableRepost"}
    /\ step.sent[1].url = step.url

C5_NewPart ==
    (~first_run /\ Classified /\ ~WasSeen /\ step.dup.kind = "none")
    => /\ Len(step.sent) = 1
       /\ step.sent[1].type = "New"
       /\ step.sent[1].url = step.url
       /\ step.sent[1].data = step.data
       /\ NewKeyCommitted

\* C5 as stated: outside the first-run pass an unseen listing without match
\* sends exactly one New message and is committed; hence every key added in
\* such a cycle had exactly one message (New or ProbableRepost) in it.
C5_Original ==
    /\ C5_NewPart
    /\ (~first_run /\ step.op = "classify" /\ Keys(seen) # Keys(step.pre_seen))
       => OneMessageForKey

\* C5 amended: ... hence every key added in such a cycle had at most one
\* message in it: exactly one (New or ProbableRepost), except that the
\* location-only variant sends none for a matched listing that fails the
\* same-area, same-phone, other-price check.
C5_Amended ==
    /\ C5_NewPart
    /\ (~first_run /\ step.op = "classify" /\ Keys(seen) # Keys(step.pre_seen))
       => /\ Keys(seen) = Keys(step.pre_seen) \cup {step.url}
          /\ IF variant = "advanced" /\ step.dup.kind = "match" /\ ~ExactDuplicate
             THEN step.sent = <<>>
             ELSE OneMessageForKey

C5_Witness ==
    /\ ~first_run /\ Classified /\ ~WasSeen /\ step.dup.kind = "none"
    /\ Len(step.pre_seen) = 1 /\ Len(seen) = 2
    /\ step.sent[1].type = "New"

\* the scenario of C6 for the stored entry b and the record c of this step
RepostScenario(b, c) ==
    /\ SameLocation(b, c)
    /\ Numeric(b.sqm) /\ Numeric(c.sqm)
    /\ Abs(b.sqm - c.sqm) >= 1 /\ Abs(b.sqm - c.sqm) <= 3
    /\ b.price # c.price
    /\ b.phone = c.phone /\ b.phone \notin {"None", ""}

\* B is at position i of the store and nothing stored before it stops the scan
ScenarioAt(i) ==
    /\ Classified /\ ~WasSeen
    /\ i \in 1..Len(step.pre_seen)
    /\ RepostScenario(step.pre_seen[i].data, step.data)
    /\ \A j \in 1..(i - 1) : Cond(variant, step.pre_seen[j].data, step.data) = "false"

\* C6 as stated: with B stored and C an unseen record at B's place, 1 to 3
\* square meters apart, at another price, with B's non-empty phone, exactly one
\* ProbableRepost message names both keys and the store holds B unchanged and C.
C6_Original ==
    \A i \in 1..Len(seen) :
        ScenarioAt(i)
        => /\ Len(step.sent) = 1
           /\ step.sent[1].type = "ProbableRepost"
           /\ step.sent[1].url = step.url
           /\ step.sent[1].old_url = step.pre_seen[i].url
           /\ NewKeyCommitted

\* C6 amended: in the price-and-phone variant, when no entry stored before B
\* matches C or has a null area, ... (as stated); in the location-only variant
\* the same C is committed without any message, because the areas differ.
C6_Amended ==
    \A i \in 1..Len(seen) :
        ScenarioAt(i)
        => /\ IF variant = "archive"
              THEN /\ Len(step.sent) = 1
                   /\ step.sent[1].type = "ProbableRepost"
                   /\ step.sent[1].url = step.url
                   /\ step.sent[1].old_url = step.pre_seen[i].url
              ELSE step.sent = <<>>
           /\ NewKeyCommitted

C6_Witness ==
    /\ variant = "archive" /\ ScenarioAt(1)
    /\ step.pre_seen[1].data.sqm = 70 /\ step.data.sqm = 71
    /\ Len(step.sent) = 1 /\ Len(seen) = 2

\* C10: a record without identifier is skipped: nothing is sent, no contact
\* lookup is made, the store, its file and the phone cache stay as they were,
\* and the next record of the cycle is processed.
C10_SkipInv ==
    /\ step.op = "resolved" => ~NoIdentifier(step.item)
    /\ (step.op \in {"classify", "populate"} /\ NoIdentifier(step.item))
       =>
       /\ step.class = "Skipped"
       /\ step.sent = <<>>
       /\ step.requests = 0
       /\ seen = step.pre_seen
       /\ seen_file = step.pre_file
       /\ phone_cache = step.pre_cache
       /\ pc = "advance"

C10_SkipNext ==
    (step.op \in {"classify", "populate"} /\ step.class = "Skipped"
       /\ index + 1 < n_listings)
    => /\ pc' \in {"classify", "populate"}
       /\ index' = index + 1
       /\ n_listings' = n_listings
       /\ phase' = phase

C10_Skipped == [](C10_SkipInv) /\ [][C10_SkipNext]_vars

C10_Witness ==
    /\ step.op = "classify" /\ NoIdentifier(step.item) /\ step.item.token = ""
    /\ index + 1 < n_listings /\ Len(seen) > 0

\* --- claims about the matcher, checked under SpecMatch

MatcherRan == pc = "matched"

\* the location-only rule in the claim's words, on two canonical records
LocationRule(old, new) ==
    /\ SameLocation(old, new)
    /\ Numeric(old.sqm) /\ Numeric(new.sqm)
    /\ Abs(old.sqm - new.sqm) <= 3

\* C7: under the location-only policy a stored entry is reported as a match
\* if and only if city, neighborhood, street, floor and rooms are field-equal
\* (two unknowns are equal) and the areas differ by at most 3; price and phone
\* take no part.  The entry scanned first is reported exactly when the rule
\* holds of it, and whichever entry is reported satisfies the rule.
C7_LocationOnly ==
    (MatcherRan /\ variant = "advanced")
    => /\ Len(seen) >= 1
          => ((step.dup = [kind |-> "match", idx |-> 1])
                <=> LocationRule(seen[1].data, step.data))
       /\ step.dup.kind = "match"
          => LocationRule(seen[step.dup.idx].data, step.data)

C7_Witness ==
    /\ MatcherRan /\ variant = "advanced"
    /\ step.dup = [kind |-> "match", idx |-> 1]
    /\ seen[1].data.price # step.data.price
    /\ seen[1].data.phone # step.data.phone
    /\ Abs(seen[1].data.sqm - step.data.sqm) = 3

\* the listings as the feed gave them have the same place
RawSameLocation(a, b) ==
    /\ a.city = b.city /\ a.neighborhood = b.neighborhood /\ a.street = b.street
    /\ a.floor = b.floor /\ a.rooms = b.rooms

PricePhoneRule(old, new) ==
    /\ Numeric(old.sqm) /\ Numeric(new.sqm)
    /\ Abs(old.sqm - new.sqm) <= 3
    /\ old.price # new.price
    /\ old.phone \notin {"None", ""} /\ new.phone \notin {"None", ""}
    /\ old.phone = new.phone

\* C8 as stated: under the price-and-phone policy an entry is reported only if
\* city, neighborhood, street, floor and rooms are equal, the areas differ by
\* at most 3, the prices differ and the phones are non-empty and equal.
C8_Original ==
    (MatcherRan /\ variant = "archive" /\ step.dup.kind = "match")
    => /\ RawSameLocation(step.raws[step.dup.idx], step.item)
       /\ PricePhoneRule(seen[step.dup.idx].data, step.data)

\* C8 amended: ... only if street and rooms are equal, the areas differ by at
\* most 3, the prices differ and the phones are non-empty and equal; city,
\* neighborhood and floor are not compared.
C8_Amended ==
    (MatcherRan /\ variant = "archive" /\ step.dup.kind = "match")
    => /\ step.raws[step.dup.idx].street = step.item.street
       /\ step.raws[step.dup.idx].rooms = step.item.rooms
       /\ seen[step.dup.idx].data.street = step.data.street
       /\ seen[step.dup.idx].data.rooms = step.data.rooms
       /\ PricePhoneRule(seen[step.dup.idx].data, step.data)

C8_Witness ==
    /\ MatcherRan /\ variant = "archive"
    /\ step.dup = [kind |-> "match", idx |-> 2]
    /\ step.raws[2].floor = 5 /\ step.item.floor = 3
    /\ step.item.sqm = 73 /\ step.raws[2].sqm = 70

\* the entry at position i satisfies the match predicate of the running variant
Satisfies(i) == Cond(variant, seen[i].data, step.data) = "true"

\* C9: find_repost returns the first entry, in insertion order, that satisfies
\* the match predicate, and returns (absent, absent) when the store is empty
\* or no entry satisfies it.
C9_FirstMatch ==
    MatcherRan
    => /\ step.dup.kind = "match"
          => /\ Satisfies(step.dup.idx)
             /\ \A j \in 1..(step.dup.idx - 1) : ~Satisfies(j)
       /\ (\A i \in 1..Len(seen) : ~Satisfies(i))
          => step.dup = [kind |-> "none", idx |-> 0]

\* --- claims about the commit of one listing, checked under Spec

\* the side effects hold one put, directly followed by the one save
PutThenSave(ops) ==
    \E i \in 1..(Len(ops) - 1) :
        /\ ops[i] = "put" /\ ops[i + 1] = "save"
        /\ \A j \in 1..Len(ops) : ops[j] \in {"put", "save"} => j \in {i, i + 1}

NoPutNoSave(ops) == \A j \in 1..Len(ops) : ops[j] \notin {"put", "save"}

\* C11: a listing classified New, PriceChanged or ProbableRepost causes exactly
\* one put directly followed by one save, both done when the iteration ends;
\* a listing classified Unchanged or skipped causes no put and no save.
C11_PutPersist ==
    step.op = "classify"
    => /\ step.class \in {"New", "PriceChanged", "ProbableRepost"}
          => /\ PutThenSave(step.ops) /\ step.saves = 1
             /\ seen = Put(step.pre_seen, step.url, step.data)
             /\ seen_file = save_seen(seen)
             /\ pc = "advance"
       /\ step.class \in {"Unchanged", "Skipped"}
          => /\ NoPutNoSave(step.ops) /\ step.saves = 0
             /\ seen = step.pre_seen
             /\ seen_file = step.pre_file

C11_Witness ==
    /\ step.op = "classify" /\ step.class = "New"
    /\ step.ops = <<"send", "put", "save">>
    /\ Len(step.pre_seen) = 1 /\ Len(seen) = 2
    /\ seen_file = save_seen(seen)

\* the store a new process would load
Persisted == load_seen(seen_file)

\* the process was killed during a cycle
Killed == step.op = "kill"

\* after a kill the file can be loaded and holds the store as it was when the
\* in-flight record was taken, or that store with the in-flight record if its
\* save was done
PrefixPersisted ==
    /\ ~LoadRaises(seen_file)
    /\ \/ Persisted = step.boundary
       \/ /\ \E i \in 1..Len(step.done) : step.done[i] = "save"
          /\ Persisted = step.memory

\* C12 as stated: however the process is killed during a cycle, the persisted
\* store is the store after fully processing a prefix of the cycle's records;
\* at every listing boundary the persisted store equals the store in memory.
C12_Original ==
    /\ Killed => PrefixPersisted
    /\ pc \in {"classify", "populate"} => Persisted = seen

\* the POST to Telegram of this step failed
DeliveryFailed == step.op = "classify" /\ step.delivery \notin {"none", "sent"}

\* C13: when the delivery of the message of a New, PriceChanged or
\* ProbableRepost listing fails, the record is still put and saved, no
\* exception leaves the body, and the cycle goes on with the next record.
C13_Inv ==
    DeliveryFailed
    => /\ step.class \in {"New", "PriceChanged", "ProbableRepost"}
       /\ Len(step.sent) = 1
       /\ Committed
       /\ PutThenSave(step.ops)
       /\ pc = "advance"

C13_Next ==
    (DeliveryFailed /\ index + 1 < n_listings)
    => /\ pc' = "classify"
       /\ index' = index + 1
       /\ n_listings' = n_listings
       /\ phase' = phase
       /\ seen' = seen /\ seen_file' = seen_file

C13_DeliveryFailure == [](C13_Inv) /\ [][C13_Next]_vars

C13_Witness ==
    /\ DeliveryFailed /\ step.class = "New" /\ step.delivery = "logged"
    /\ index + 1 < n_listings
    /\ Lookup(seen, step.url) = step.data

\* C14: when a page fetch fails on every attempt (timeouts, errors or HTML
\* answers), the page counts as empty and the cycle is not aborted: no
\* exception leaves the fetch step, the records of the earlier pages go on to
\* classification, and a cycle without records ends normally.
C14_FetchFailureContained ==
    (variant = "advanced" /\ step.op = "fetch" /\ step.outcome \in {"failed", "html"})
    => /\ pc # "crashed"
       /\ step.had > 0 => (pc = "classify" /\ n_listings = step.had /\ phase = step.phase)
       /\ (step.had = 0 /\ step.phase = "init1") => phase = "init2"
       /\ (step.had = 0 /\ step.phase = "init2") => phase = "search1"
       /\ (step.had = 0 /\ step.phase = "search1") => phase = "search2"

\* C15: an exception raised inside a cycle, the initial population pass
\* included, never terminates the process: the process only ends when it is
\* killed or stopped from outside, or after its single round in run-once mode.
C15_ExceptionsCaught == pc = "crashed" => Killed

\* C17: a contact lookup on a cache miss makes at most retry_count requests;
\* when all fail the phone is None, nothing is raised, and the record goes
\* through the loop body as any other: whenever the body commits it, the
\* stored record has phone None, and the body only ends early when the
\* matcher raises.
C17_LookupFailure ==
    /\ step.op \in {"resolved", "classify", "populate"} => step.requests <= retry_count
    /\ (step.op = "resolved" /\ step.lookup = "failed")
       => /\ step.data.phone = "None"
          /\ pc \in {"body", "store"}
          /\ step.requests = IF variant = "advanced" THEN retry_count ELSE 1
    /\ (step.op = "classify" /\ step.lookup = "failed")
       => /\ step.data.phone = "None"
          /\ step.class \in {"New", "PriceChanged", "ProbableRepost", "SimilarNotExact"}
             => (Committed /\ Lookup(seen, step.url).phone = "None")
          /\ step.class = "Raised" => step.dup.kind = "raise"

C17_Witness ==
    /\ variant = "advanced" /\ step.op = "classify" /\ step.lookup = "failed"
    /\ step.requests = retry_count
    /\ step.class = "New"
    /\ Lookup(seen, step.url).phone = "None"

\* C20: the store has at most one entry per key and every entry is a complete
\* canonical record; a step changes an entry only by replacing it with the
\* whole canonical record of the listing it processed (or by loading the file).
CanonicalFields ==
    IF variant = "advanced"
    THEN {"price", "rooms", "street", "neighborhood", "city", "floor", "sqm", "phone",
          "token", "is_private"}
    ELSE {"price", "rooms", "street", "sqm", "phone"}

C20_Inv ==
    /\ \A i, j \in 1..Len(seen) : seen[i].url = seen[j].url => i = j
    /\ \A i \in 1..Len(seen) :
          /\ DOMAIN seen[i].data = CanonicalFields
          /\ variant = "advanced" => seen[i].url = Url(seen[i].data.token)

C20_Next ==
    \A i \in 1..Len(seen') :
        \/ /\ seen'[i].url \in Keys(seen)
           /\ Lookup(seen, seen'[i].url) = seen'[i].data
        \/ /\ step'.op \in {"classify", "populate"}
           /\ step'.class # "Skipped"
           /\ seen'[i].url = step'.url
           /\ seen'[i].data = step'.data
           /\ step'.data = Canon(variant, [phone |-> step'.data.phone] @@ step'.item)
        \/ /\ step'.op = "boot"
           /\ seen' = load_seen(seen_file)

C20_WholeRecords == [](C20_Inv) /\ [][C20_Next]_vars

C20_Witness ==
    /\ step.op = "classify" /\ step.class = "PriceChanged"
    /\ Len(seen) = 2
    /\ Lookup(step.pre_seen, step.url).sqm # step.data.sqm
    /\ Lookup(seen, step.url) = step.data

\* --- claims about the contact resolver, checked under SpecResolve

\* C16: get_contact_info for an identifier that is in the phone cache returns
\* the cached value (a number or None), sends no request to the contact
\* endpoint and changes neither the cache nor its file.
C16_CacheHit ==
    (pc = "resolved" /\ step.ads_id \in DOMAIN step.pre_cache)
    => /\ step.first.phone = step.pre_cache[step.ads_id]
       /\ step.first.requests = 0
       /\ phone_cache = step.pre_cache
       /\ cache_file = step.pre_file

C16_Witness ==
    /\ pc = "resolved" /\ step.ads_id \in DOMAIN step.pre_cache
    /\ step.pre_cache[step.ads_id] = "050-2222222"
    /\ step.first.net.resp = "050-1111111"
    /\ step.first.phone = "050-2222222"

\* C18: after a lookup whose request succeeded, the phone cache and its file
\* hold the result for the identifier (the number, or None when none was
\* returned), and resolving the identifier again is a cache hit that returns
\* what the first call returned.
C18_CachedResult ==
    (pc = "again" /\ step.first.outcome = "ok")
    => /\ step.ads_id \in DOMAIN step.mid_cache
       /\ step.mid_cache[step.ads_id] =
             IF Truthy(step.first.net.resp) THEN step.first.net.resp ELSE "None"
       /\ step.second.outcome = "hit"
       /\ step.second.requests = 0
       /\ cache_file = save_phone_cache(phone_cache)
       /\ step.second.phone = step.first.phone

\* --- the store file, checked under SpecMatch

\* C19: saving the store and loading it gives the same keys in the same order
\* and, for every key, a record with the same fields and values ('unknown'
\* sentinels, 0 defaults and a None phone included), so any price compares
\* with the loaded record as it did with the saved one.
C19_RoundTrip ==
    pc = "reloaded"
    => /\ Len(seen) = Len(step.pre_seen)
       /\ Keys(seen) = Keys(step.pre_seen)
       /\ \A i \in 1..Len(seen) :
             /\ seen[i].url = step.pre_seen[i].url
             /\ DOMAIN seen[i].data = DOMAIN step.pre_seen[i].data
             /\ \A f \in DOMAIN seen[i].data :
                   seen[i].data[f] = step.pre_seen[i].data[f]
             /\ (seen[i].data.price # step.data.price)
                   <=> (step.pre_seen[i].data.price # step.data.price)

C19_Witness ==
    /\ pc = "reloaded" /\ variant = "advanced" /\ Len(seen) = 2
    /\ seen[1].data.floor = UnknownFloor
    /\ seen[2].data.phone = "None"
    /\ step.pre_seen[2].data.phone = "None"
    /\ seen_file.content[2].value.phone = JsonNull

\* --- claims about the normalizer, the store's content and the run modes

\* C21: the normalizer never fails and gives every record a numeric price and
\* area (0 when the feed has none), never None; so every stored record has a
\* numeric price and area and the matcher's area comparison never raises.
C21_NormalizerTotal ==
    /\ step.op = "resolved"
       => Numeric(step.data.price) /\ Numeric(step.data.sqm)
    /\ \A i \in 1..Len(seen) :
          Numeric(seen[i].data.price) /\ Numeric(seen[i].data.sqm)
    /\ step.op = "classify" => step.dup.kind # "raise"

\* C23: once the body of the loop has processed a fetched record with key K,
\* whatever its class (Unchanged included), the store's entry for K is the
\* canonical record of that fetched snapshot.
C23_LatestSnapshot ==
    (step.op = "classify" /\ step.class \notin {"Skipped", "Raised"})
    => /\ step.url \in Keys(seen)
       /\ Lookup(seen, step.url) = step.data

\* C25: a run-once process makes one pass over each search and no other (no
\* initial pass before it), whatever the store held at start; a continuous
\* process ends only when it is killed or stopped from outside.
C25_RunModes ==
    /\ run_once => phase \notin {"init1", "init2"}
    /\ (pc \in {"exited", "crashed"} /\ ~run_once) => step.op \in {"kill", "stop"}

\* C26: with a Telegram credential missing (None or empty) the program stops
\* at its first statements: the process is over, no fetch was issued, nothing
\* was sent, the store and the phone cache were not loaded and their files
\* are as they were; the program only goes on with both credentials set.
C26_Inv ==
    step.op = "startup_failed"
    => /\ step.env.token \in {"None", ""} \/ step.env.chat \in {"None", ""}
       /\ pc = "failed"
       /\ seen = <<>> /\ phone_cache = EmptyCache
       /\ phase = "none" /\ page = 1 /\ n_listings = 0 /\ index = 0

C26_Next ==
    /\ (pc = "boot" /\ step'.op = "boot")
       => /\ step'.env.token \notin {"None", ""}
          /\ step'.env.chat \notin {"None", ""}
    /\ (pc = "boot" /\ step'.op = "startup_failed")
       => UNCHANGED <<seen, seen_file, phone_cache, cache_file, phase, page,
                      total_pages, n_listings, index>>
    /\ pc = "failed" => pc' = "failed"

C26_MissingCredential == [](C26_Inv) /\ [][C26_Next]_vars

C26_Witness ==
    /\ step.op = "startup_failed" /\ pc = "failed"
    /\ step.env.token = "bot-token" /\ step.env.chat = ""
    /\ seen_file.exists /\ Len(load_seen(seen_file)) = 2
    /\ seen = <<>>

\* the in-flight record of a kill, classified against the persisted store
Again == Classify(variant, Persisted, step.url, step.data)

\* C30: a New or ProbableRepost record is announced before it is put and
\* saved, a PriceChanged record is put and saved before it is announced.  So
\* a kill after the announcement of a New/ProbableRepost record and before its
\* save begins leaves a store file from which the same record is announced again, and
\* a kill after the save of a PriceChanged record and before its announcement
\* leaves a store file from which the record is Unchanged: never announced.
C30_Order ==
    /\ (step.op = "classify" /\ step.class \in {"New", "ProbableRepost"})
       => step.ops = <<"send", "put", "save">>
    /\ (step.op = "classify" /\ step.class = "PriceChanged")
       => step.ops = <<"put", "save", "send">>
    /\ (Killed /\ step.at = "body" /\ step.class \in {"New", "ProbableRepost"}
          /\ ~step.torn /\ step.done \in {<<"send">>, <<"send", "put">>})
       => /\ step.url \notin Keys(Persisted)
          /\ Again.class = step.class
          /\ Len(Again.sent) = 1 /\ Again.sent[1].url = step.url
    /\ (Killed /\ step.at = "body" /\ step.class = "PriceChanged"
          /\ ~step.torn /\ step.done = <<"put", "save">>)
       => /\ step.url \in Keys(Persisted)
          /\ Lookup(Persisted, step.url).price = step.data.price
          /\ Again.class = "Unchanged" /\ Again.sent = <<>>

C30_Witness ==
    /\ Killed /\ step.at = "body" /\ step.class = "PriceChanged" /\ ~step.torn
    /\ step.done = <<"put", "save">>
    /\ Lookup(Persisted, step.url).price = 2100000
    /\ Lookup(step.boundary, step.url).price = 2000000

\* --- claims about whole cycles, checked under SpecCycle

NoRepeat(q) == \A i, j \in 1..Len(q) : q[i] = q[j] => i = j

\* C22: in one cycle every key is put at most once and is the subject of at
\* most one message, also when the fetched records hold the key twice.
C22_OncePerKey == NoRepeat(step.puts) /\ NoRepeat(step.notes)

\* C24: a second cycle that follows a completed cycle and fetches the very
\* same records sends no message, puts and saves nothing and, in the variant
\* with the phone cache, sends no request to the contact endpoint.
C24_SecondCycleSilent ==
    (step.round = 2 /\ step.completed)
    => /\ step.notes = <<>>
       /\ step.puts = <<>> /\ step.saves = 0
       /\ variant = "advanced" => step.requests = 0

\* --- claims about the fetch layer, checked under SpecFetch

\* the pagination loop is over
LoopOver == pc \in {"classify", "returned", "raised"}

\* C27: the calls of fetch_listings that return results are those for pages
\* 1, 2, 3, ... in this order, each page once, page i + 1 only when the count
\* reported with page i reaches it.  When no call gave up, the loop ends at
\* the first page whose reported count has no further page, so with one count
\* N >= 1 reported throughout exactly the pages 1..N were fetched; the
\* per-listing loop starts only when the loop test has failed; and the loop
\* always ends.
C27_Inv ==
    /\ \A i \in 1..Len(step.fetched) : step.fetched[i] = i
    /\ Len(step.reported) = Len(step.fetched)
    /\ \A i \in 1..(Len(step.fetched) - 1) : i + 1 <= step.reported[i]
    /\ pc = "attempt" => page = Len(step.fetched) + 1
    /\ (pc \in {"classify", "returned"} /\ step.failures = 0)
       => /\ Len(step.fetched) >= 1
          /\ step.reported[Len(step.fetched)] <= Len(step.fetched)
          /\ ((\A i \in 1..Len(step.reported) : step.reported[i] = step.reported[1])
                /\ step.reported[1] >= 1)
             => Len(step.fetched) = step.reported[1]
    /\ pc = "classify" => (page > total_pages /\ n_listings > 0)

C27_Pagination == [](C27_Inv) /\ <>(LoopOver)

C27_Witness ==
    /\ pc = "classify" /\ step.failures = 0
    /\ step.fetched = <<1, 2>> /\ step.reported = <<2, 2>>
    /\ page = 3 /\ total_pages = 2

\* C28: one call of fetch_listings sends at most MAX_RETRIES requests; after
\* its k-th failed attempt it sleeps RETRY_DELAY * k seconds (5, then 10),
\* except after the last one, where it returns at once; and every call ends.
C28_Inv ==
    /\ step.requests <= MAX_RETRIES
    /\ Len(step.sleeps) <= MAX_RETRIES - 1
    /\ \A k \in 1..Len(step.sleeps) : step.sleeps[k] = RETRY_DELAY * k
    /\ \A k \in 1..(Len(step.sleeps) - 1) : step.sleeps[k] < step.sleeps[k + 1]
    /\ step.result = "running" => Len(step.sleeps) = step.requests
    /\ step.result = "ok" => Len(step.sleeps) = step.requests - 1
    /\ step.result \in {"failed", "html"}
       => (step.requests = MAX_RETRIES /\ Len(step.sleeps) = MAX_RETRIES - 1)

C28_Retries == [](C28_Inv) /\ ((step.result = "running") ~> (step.result # "running"))

C28_Witness ==
    /\ step.result = "failed" /\ step.requests = 3
    /\ step.sleeps = <<5, 10>>
    /\ step.answers = <<"timeout", "html", "error">>

\* --- claims about the repost alert, the phone cache and the store's keys

\* C31: the advanced variant sends a ProbableRepost message only when the
\* fetched record and the matched stored record have the same, non-empty phone
\* and different prices; with no phone on both sides it never sends one.
C31_RepostPhones ==
    (variant = "advanced" /\ Classified /\ step.dup.kind = "match"
       /\ Len(step.sent) = 1 /\ step.sent[1].type = "ProbableRepost")
    => /\ MatchedEntry.data.phone = step.data.phone
       /\ step.data.phone \notin {"None", ""}
       /\ MatchedEntry.data.price # step.data.price

\* C32: while the process runs, an identifier that is in the phone cache
\* stays in it with its value, None included, and a lookup of it sends no
\* request and returns the cached value; the cache file keeps it as well
\* unless a kill inside a write tears the file.
C32_Next ==
    /\ step'.op \notin {"kill", "restart"}
       => \A id \in DOMAIN phone_cache :
             id \in DOMAIN phone_cache' /\ phone_cache'[id] = phone_cache[id]
    /\ \/ cache_file'.torn
       \/ \A id \in DOMAIN cache_file.content :
             /\ id \in DOMAIN cache_file'.content
             /\ cache_file'.content[id] = cache_file.content[id]
    /\ (variant = "advanced" /\ step'.op = "resolved"
          /\ step'.item.token \in DOMAIN phone_cache)
       => /\ step'.requests = 0 /\ step'.lookup = "hit"
          /\ step'.data.phone = phone_cache[step'.item.token]
          /\ cache_file' = cache_file

C32_CacheFrozen == [][C32_Next]_vars

C32_Witness ==
    /\ variant = "advanced" /\ step.op = "resolved" /\ step.lookup = "hit"
    /\ step.pre_cache[step.item.token] = "None"
    /\ step.requests = 0 /\ step.data.phone = "None"
    /\ phase = "search1" /\ step.url \in Keys(seen)

\* C33: no step of the program removes a key: the keys of the store file only
\* grow as long as the file can be loaded (a kill inside a save leaves a file
\* no process can load), the keys of the store in memory only grow while the
\* process runs, and every persisted key is in the running process's store,
\* whether or not the feed still has the listing.
C33_Inv ==
    (pc \notin {"boot", "crashed", "failed"} /\ step.op \notin {"kill", "restart"})
    => Keys(Persisted) \subseteq Keys(seen)

C33_Next ==
    /\ \/ LoadRaises(seen_file')
       \/ Keys(load_seen(seen_file)) \subseteq Keys(load_seen(seen_file'))
    /\ step'.op \notin {"kill", "restart"} => Keys(seen) \subseteq Keys(seen')

C33_KeysGrow == [](C33_Inv) /\ [][C33_Next]_vars

C33_Witness ==
    /\ variant = "advanced" /\ step.op = "fetch" /\ step.outcome = "ok"
    /\ pc = "fetch" /\ page = 1 /\ phase = "search2"
    /\ Len(seen) = 2 /\ seen_file = save_seen(seen)

\* a fetch step ends a cycle that fetched no record at all
EmptyCycleEnds ==
    /\ step'.op = "fetch" /\ n_listings = 0
    /\ pc' \notin {"classify", "populate"}
    /\ ~(pc' = "fetch" /\ phase' = phase)

\* the per-listing loop is only entered with at least one record
LoopNeedsRecords ==
    (pc \in {"fetch", "get"} /\ pc' \in {"classify", "populate"}) => n_listings' > 0

\* C35 as stated: a cycle whose fetch yields no record ends at once, without
\* contact lookup, message, put or save: store, store file, phone cache and
\* cache file are as before.
C35_OriginalNext ==
    /\ EmptyCycleEnds => UNCHANGED <<seen, seen_file, phone_cache, cache_file>>
    /\ LoopNeedsRecords

C35_Original == [][C35_OriginalNext]_vars

\* C35 amended: ... as before; only the initial population pass of the
\* price-and-phone variant, which is not a call of the cycle function, still
\* saves the empty store when its fetch yields no record.
C35_AmendedNext ==
    /\ EmptyCycleEnds
       => /\ UNCHANGED <<seen, phone_cache, cache_file>>
          /\ IF variant = "archive" /\ phase = "populate" /\ step'.outcome = "ok"
             THEN seen = <<>> /\ seen_file' = save_seen(<<>>)
             ELSE UNCHANGED seen_file
    /\ LoopNeedsRecords

C35_Amended == [][C35_AmendedNext]_vars

C35_Witness ==
    /\ variant = "archive" /\ step.op = "fetch" /\ step.outcome = "ok"
    /\ pc = "sleep" /\ phase = "loop"
    /\ Len(seen) = 2 /\ seen_file = save_seen(seen)

\* C36: the matcher runs only for a record whose key is not in the store: a
\* known key gets no matcher result and no ProbableRepost message, and a
\* matched entry or the old key of a ProbableRepost message is never the
\* record's own key.
C36_NotItself ==
    /\ (Classified /\ WasSeen)
       => /\ step.dup.kind = "none"
          /\ \A i \in 1..Len(step.sent) : step.sent[i].type # "ProbableRepost"
    /\ (Classified /\ step.dup.kind = "match")
       => (~WasSeen /\ MatchedEntry.url # step.url)
    /\ Classified
       => \A i \in 1..Len(step.sent) :
             step.sent[i].type = "ProbableRepost"
             => /\ step.sent[i].old_url # step.sent[i].url
                /\ step.sent[i].old_url \in Keys(step.pre_seen)

C36_Witness ==
    /\ variant = "advanced" /\ Classified /\ WasSeen
    /\ step.class = "PriceChanged" /\ step.dup.kind = "none"
    /\ Cond(variant, Lookup(step.pre_seen, step.url), step.data) = "true"

\* the filter main_loop assigns before the cycle of this phase
FilterOf(ph) == IF ph \in {"init1", "search1"} THEN 1 ELSE 2

\* C37: every page request of a cycle is built from the filter of the cycle's
\* search; the filter variable changes only when a new cycle starts (or a new
\* process), never between two pages, and search 2 starts only when the cycle
\* of search 1 is over.
C37_Inv ==
    (variant = "advanced" /\ phase \in {"init1", "init2", "search1", "search2"})
    => API_PARAMS = FilterOf(phase)

C37_Next ==
    /\ (variant = "advanced" /\ pc = "fetch" /\ step'.op = "fetch")
       => (step'.params = API_PARAMS /\ API_PARAMS = FilterOf(phase))
    /\ (pc = "fetch" /\ pc' = "fetch" /\ phase' = phase)
       => API_PARAMS' = API_PARAMS
    /\ API_PARAMS' # API_PARAMS
       => \/ step'.op = "restart"
          \/ /\ pc' = "fetch" /\ phase' # phase
             /\ page' = 1 /\ n_listings' = 0 /\ index' = 0
    /\ (phase' # phase /\ phase' \in {"init2", "search2"})
       => /\ phase = (IF phase' = "init2" THEN "init1" ELSE "search1")
          /\ pc \in {"fetch", "advance"}

C37_OneFilter == [](C37_Inv) /\ [][C37_Next]_vars

C37_Witness ==
    /\ variant = "advanced" /\ step.op = "fetch" /\ step.params = 2
    /\ pc = "fetch" /\ phase = "search2" /\ page = 2
    /\ API_PARAMS = 2

\* --- claims about a page whose fetch gives up

\* C34: when fetch_listings gives up on a page after a timeout or an error on
\* its last attempt, the pagination loop ends there: no later page is
\* requested, whatever page count was reported before, and the records of the
\* pages fetched before are kept and go to the per-listing loop.
C34_Inv ==
    step.result = "failed"
    => /\ pc \in {"classify", "returned"}
       /\ total_pages = 0 /\ page > total_pages
       /\ page = Len(step.fetched) + 2
       /\ (pc = "classify") <=> (n_listings > 0)

C34_Next ==
    (step'.op = "gave_up" /\ step'.result = "failed")
    => /\ n_listings' = n_listings
       /\ step'.fetched = step.fetched /\ step'.reported = step.reported
       /\ pc' # "attempt"

C34_StopsOnFailure == [](C34_Inv) /\ [][C34_Next]_vars

C34_Witness ==
    /\ step.result = "failed" /\ step.failures = 1
    /\ step.fetched = <<1>> /\ step.reported = <<3>>
    /\ pc = "classify" /\ n_listings = 2 /\ page = 3

\* --- claims about the match condition itself

\* C38: in both variants the match condition gives the same outcome (true,
\* false or TypeError) for two canonical records whichever of them is taken
\* as the stored entry and whichever as the new one.
C38_Symmetric ==
    step.op = "swapped" => step.forward = step.backward

C38_Witness ==
    /\ pc = "swapped" /\ variant = "archive"
    /\ step.forward = "true" /\ step.backward = "true"
    /\ step.a.sqm # step.b.sqm /\ step.a.price # step.b.price

\* --- claims about the event loop, checked under SpecLoop

\* C29: from the read of the store for a record to the end of its put and
\* save the coroutine is at no await: whenever another task runs, every
\* record that was read has all its side effects done, the store it sees is
\* the store at a boundary between two records and the file holds it; after
\* the read only the body's own statements run until the iteration ends; and
\* every record is read from a store that holds the keys put for the records
\* before it, so no two records are classified against the same store unless
\* the first of them put nothing.
C29_Inv ==
    /\ step.snapshot.at # "none"
       => /\ step.snapshot.at \in {"lookup", "sleep"}
          /\ step.snapshot.pending = <<>>
          /\ step.snapshot.reads = step.snapshot.completed
          /\ load_seen(step.snapshot.file) = step.snapshot.store
    /\ pc \in {"read", "effect"} => ~step.looked

C29_Next ==
    /\ pc = "read" => step'.op = "read"
    /\ pc = "effect" => step'.op \in {"effect", "next"}
    /\ step'.op = "read"
       => /\ step'.pre_seen = seen
          /\ step.reads = step.completed /\ step.pending = <<>>
          /\ \A i \in 1..Len(step.puts) : step.puts[i] \in Keys(seen)
    /\ step'.op = "next"
       => (step.class \in {"New", "PriceChanged", "ProbableRepost", "SimilarNotExact"}
           => /\ step.url \in Keys(seen)
              /\ seen = step.target /\ seen_file = save_seen(seen))
    /\ seen' # seen => (step'.op = "effect" /\ Head(step.pending) = "put")

C29_Atomic == [](C29_Inv) /\ [][C29_Next]_vars

C29_Witness ==
    /\ pc = "done" /\ step.completed = 2 /\ Len(step.puts) = 2
    /\ step.snapshot.at = "lookup" /\ step.snapshot.index = 1
    /\ Len(step.snapshot.store) = 1 /\ step.snapshot.completed = 1
    /\ Len(seen) = 2 /\ seen_file = save_seen(seen)

====
